---- MODULE Spec2Model ----
(***************************************************************************)
(* Model of the multi-agent orchestration tasks of the python worker       *)
(* (src/python-worker/tasks/agents.py).  Text is a sequence of string      *)
(* tokens; f-strings and str.join are token concatenation.  A Python dict  *)
(* is a record whose DOMAIN is its key set, so a missing key (KeyError) is *)
(* visible as k \notin DOMAIN d.  One action is one loop iteration or the  *)
(* code after the loop of a task function, including the synchronous call  *)
(* of run_single_agent it makes.                                           *)
(***************************************************************************)
EXTENDS Integers, Sequences, FiniteSets, TLC

VARIABLES
    op,               \* which task function this run executes
    pc,               \* "loop" while the function runs, "done" once it returned
    request_id,       \* self.request.id of the running task
    agents,           \* argument agents (list of dicts; list of roles for debate)
    initial_task,     \* run_multi_agent_sequential: initial_task
    pass_context,     \* run_multi_agent_sequential: pass_context
    task,             \* run_multi_agent_parallel: task
    synthesize,       \* run_multi_agent_parallel: synthesize
    topic,            \* run_agent_debate: topic
    rounds,           \* run_agent_debate: rounds
    i,                \* 0-based index of the next element of agents
    round_num,        \* run_agent_debate: round_num of the outer loop
    results,          \* local list results
    current_context,  \* run_multi_agent_sequential: current_context
    debate_history,   \* run_agent_debate: debate_history
    calls,            \* every run_single_agent invocation made so far, in order
    ret,              \* the returned dict, NoReturn while running
    arg_role,         \* run_single_agent: role
    arg_task_description, \* run_single_agent, run_long_task: task_description
    arg_context,      \* run_single_agent: context
    arg_custom_system_prompt, \* run_single_agent: custom_system_prompt
    last_outcome,     \* what the provider did in the latest call made to it
    arg_checkpoint_data, \* run_long_task: checkpoint_data
    clock,            \* datetime.utcnow() of the running invocation
    invocations,      \* how many times run_long_task has been invoked
    provider_calls,   \* how many times agent.run has been called
    first_started_at, \* started_at of the first snapshot since the last fresh start
    resumed_from,     \* request id of the call whose checkpoint_data this call was given
    store,            \* the vector index: the documents of every collection that exists
    arg_collection_name, \* query_with_context: collection_name
    arg_n_context_docs,  \* query_with_context: n_context_docs
    arg_system_prompt,   \* query_with_context: system_prompt
    index_outcome,    \* what the vector index did in the latest search
    llm_calls,        \* the direct llm_client.generate calls of the latest task run
    sdk_client,       \* the ClaudeAgentClient singleton: how its construction ended
    file,             \* the document at file_path, as the file system holds it
    rag_result, \* research_and_report_workflow: what the nested query_with_context returned
    sdk_calls, \* the options of every query the client sent to the SDK in the latest task run
    sdk_outcome, \* what the SDK would do with a query in the latest task run
    arg_operation, \* file_operations_task: operation
    arg_files, \* file_operations_task: files
    arg_auto_accept, \* execute_code_task: auto_accept
    arg_working_dir, \* claude-agent tasks: working_dir
    arg_max_tokens, \* claude_agent_query_task: max_tokens
    arg_permission_mode, \* claude_agent_query_task: permission_mode
    settings, \* the settings object: whether it defines the multi-model attributes, and their values
    code_analyzer, \* the _code_analyzer singleton
    data_analyzer, \* the _data_analyzer singleton
    arg_use_openai, \* analyze_code_task, analyze_data_task: use_openai
    ran_model, \* the model of the agent that ran in the latest analysis task
    arg_file_paths, \* batch_document_analysis_workflow's file_paths, as the files they name
    arg_analysis_type, \* batch_document_analysis_workflow's analysis_type
    arg_chunk_size, \* chunk_and_index's chunk_size
    arg_chunk_overlap  \* chunk_and_index's chunk_overlap

vars == <<op, pc, request_id, agents, initial_task, pass_context, task,
          synthesize, topic, rounds, i, round_num, results, current_context,
          debate_history, calls, ret, arg_role, arg_task_description,
          arg_context, arg_custom_system_prompt, last_outcome,
          arg_checkpoint_data, clock, invocations, provider_calls,
          first_started_at, resumed_from, store, arg_collection_name,
          arg_n_context_docs, arg_system_prompt, index_outcome, llm_calls,
          sdk_client, file,
          rag_result,
          sdk_calls,
          sdk_outcome,
          arg_operation,
          arg_files,
          arg_auto_accept,
          arg_working_dir,
          arg_max_tokens,
          arg_permission_mode,
          settings,
          code_analyzer,
          data_analyzer,
          arg_use_openai,
          ran_model,
          arg_file_paths,
          arg_analysis_type,
          arg_chunk_size,
          arg_chunk_overlap>>

\* the state of run_single_agent run as a task and of run_long_task
singleVars == <<arg_role, arg_task_description, arg_context,
                arg_custom_system_prompt, last_outcome>>
longVars == <<arg_checkpoint_data, clock, invocations, provider_calls,
              first_started_at, resumed_from>>
\* the state of query_with_context
ragVars == <<store, arg_collection_name, arg_n_context_docs, arg_system_prompt,
             index_outcome, llm_calls>>
\* the state of the claude-agent and document tasks
claudeVars == <<sdk_client, sdk_calls, sdk_outcome, arg_operation, arg_files,
                arg_auto_accept, arg_working_dir, arg_max_tokens,
                arg_permission_mode>>
\* the state of the analysis agents and their tasks
analysisVars == <<settings, code_analyzer, data_analyzer, arg_use_openai, ran_model>>
\* the state of the document tasks and of the workflows
flowVars == <<file, rag_result, arg_file_paths, arg_analysis_type, arg_chunk_size,
              arg_chunk_overlap>>
workerVars == <<claudeVars, analysisVars, flowVars>>

-----------------------------------------------------------------------------
(* Bounds of the model *)

MaxAgents == 3
MaxRoster == 2
MaxRounds == 2

-----------------------------------------------------------------------------
(* Python values *)

None == [some |-> FALSE]
Some(v) == [some |-> TRUE, val |-> v]

NoReturn == [returned |-> FALSE]

\* d.get(k, default)
Get(d, k, default) == IF k \in DOMAIN d THEN d[k] ELSE default

\* truth value of an Optional[str]: None and "" are both false
Truthy(opt) == opt.some /\ opt.val # <<>>

\* str(KeyError(k))
KeyErrorStr(k) == <<"'" \o k \o "'">>

\* sep.join(parts)
RECURSIVE Join(_, _)
Join(sep, parts) ==
    IF parts = <<>> THEN <<>>
    ELSE IF Len(parts) = 1 THEN parts[1]
    ELSE parts[1] \o sep \o Join(sep, Tail(parts))

\* str(n) for the small integers the model uses
IntStr(n) == CASE n = 0 -> "0" [] n = 1 -> "1" [] n = 2 -> "2" [] n = 3 -> "3"
               [] n = 4 -> "4" [] n = 5 -> "5" [] n = 6 -> "6" [] n = 7 -> "7"
               [] n = 8 -> "8" [] n = 9 -> "9"

\* the role strings of the model, with str.lower() and str.upper() on them
RoleNames == {"researcher", "analyst", "Planner", "Critic", "critic", "guest",
              "synthesizer"}
Lower(r) == CASE r = "researcher" -> "researcher" [] r = "Critic" -> "critic"
              [] r = "guest" -> "guest" [] r = "synthesizer" -> "synthesizer"
              [] r = "critic" -> "critic" [] r = "analyst" -> "analyst"
              [] r = "Planner" -> "planner" [] r = "planner" -> "planner"
Upper(r) == CASE r = "researcher" -> "RESEARCHER" [] r = "Critic" -> "CRITIC"
              [] r = "guest" -> "GUEST" [] r = "synthesizer" -> "SYNTHESIZER"
              [] r = "critic" -> "CRITIC" [] r = "analyst" -> "ANALYST"
              [] r = "Planner" -> "PLANNER" [] r = "planner" -> "PLANNER"

-----------------------------------------------------------------------------
(* The provider: llm_client.generate either returns a response or raises *)

Texts == {<<>>, <<"alpha">>}
ErrorMessages == {<<"provider down">>}
Usage == [input_tokens |-> 1, output_tokens |-> 1]

ProviderOutcomes ==
    {[raised |-> FALSE, text |-> t, usage |-> Usage] : t \in Texts}
    \cup {[raised |-> TRUE, message |-> m] : m \in ErrorMessages}

-----------------------------------------------------------------------------
(* run_single_agent *)

AgentRole == [researcher |-> "You are a research specialist.",
              analyst |-> "You are a data analyst.",
              planner |-> "You are a strategic planner.",
              critic |-> "You are a critical reviewer.",
              synthesizer |-> "You are a synthesis expert."]

SystemPromptExactCase(role) == Get(AgentRole, role, "You are a helpful AI assistant.")
SystemPrompt(role) == Get(AgentRole, Lower(role), "You are a helpful AI assistant.")

BuildPromptTaskFirst(task_description, context) ==
    IF Truthy(context)
    THEN <<"Task:\n">> \o task_description \o <<"\n\nContext:\n">> \o context.val
    ELSE task_description
BuildPrompt(task_description, context) ==
    IF Truthy(context)
    THEN <<"Context:\n">> \o context.val \o <<"\n\nTask:\n">> \o task_description
    ELSE task_description

\* custom_system_prompt or role_prompts.get(role.lower(), ...)
ResolveSystemPrompt(custom, role) ==
    IF custom.some /\ custom.val # "" THEN custom.val ELSE SystemPrompt(role)

\* a Python call either returns a value or raises an exception
Return(v) == [raised |-> FALSE, value |-> v]
Raise(msg) == [raised |-> TRUE, exc |-> msg]

\* llm_client.generate: the response dict, or the exception it re-raises
generate(outcome) ==
    IF outcome.raised THEN Raise(outcome.message)
    ELSE Return([status |-> "success", text |-> outcome.text, usage |-> outcome.usage])

SingleAgentSuccess(id, role, response) ==
    [status |-> "success", task_id |-> id, role |-> role,
     output |-> response.text, usage |-> response.usage]

SingleAgentErrorWithOutput(id, role, msg) ==
    [status |-> "error", task_id |-> id, role |-> role, error |-> msg,
     output |-> <<>>]
SingleAgentError(id, role, msg) ==
    [status |-> "error", task_id |-> id, role |-> role, error |-> msg]

\* the try block of run_single_agent
SingleAgentTry(id, role, outcome) ==
    LET response == generate(outcome)
    IN IF response.raised THEN response
       ELSE Return(SingleAgentSuccess(id, role, response.value))

\* except Exception as e: return {"status": "error", ..., "error": str(e)}
SingleAgentExceptReraise(id, role, r) == r
SingleAgentExcept(id, role, r) ==
    IF r.raised THEN Return(SingleAgentError(id, role, r.exc)) ELSE r

\* run_single_agent with request id id: what the call returns or raises
RunSingleAgentTask(id, role, outcome) ==
    SingleAgentExcept(id, role, SingleAgentTry(id, role, outcome))

\* the dict run_single_agent returns when the provider behaves as outcome;
\* called directly (not through the queue) its own request id is None
run_single_agent(role, task_description, context, outcome) ==
    RunSingleAgentTask(None, role, outcome).value

\* the record of one invocation, as the provider saw it
Invocation(role, task_description, context, outcome) ==
    [role |-> role, task_description |-> task_description, context |-> context,
     system |-> SystemPrompt(role),
     prompt |-> BuildPrompt(task_description, context),
     result |-> run_single_agent(role, task_description, context, outcome)]

\* except Exception as e: return {"status": "error", ..., "error": str(e)}
InternalError(id, msg) == [status |-> "error", task_id |-> id, error |-> msg]

-----------------------------------------------------------------------------
(* Inputs *)

AgentConfigs ==
    {[role |-> "researcher", task_description |-> <<"dig">>],
     [role |-> "Critic", custom_instructions |-> <<"review">>],
     [role |-> "guest"],
     [task_description |-> <<"dig">>]}

SeqUpTo(S, n) == UNION {[1..k -> S] : k \in 0..n}

InitCommon ==
    /\ pc = "loop"
    /\ request_id = "task-1"
    /\ i = 0
    /\ results = <<>>
    /\ calls = <<>>
    /\ ret = NoReturn

\* the task functions that are not the one a run executes stay idle
IdleSingle ==
    /\ arg_role = "" /\ arg_task_description = <<>> /\ arg_context = None
    /\ arg_custom_system_prompt = None /\ last_outcome = None

IdleLong ==
    /\ arg_checkpoint_data = None /\ clock = 0 /\ invocations = 0
    /\ provider_calls = 0 /\ first_started_at = None /\ resumed_from = None

\* query_with_context has not been invoked; the vector index has no collection
IdleRag ==
    /\ store = <<>> /\ arg_collection_name = "" /\ arg_n_context_docs = 0
    /\ arg_system_prompt = None /\ index_outcome = "" /\ llm_calls = <<>>

\* no claude-agent or document task has run
\* settings read before any task has looked at the multi-model attributes
NoSettings == [defined |-> FALSE]

IdleFlow ==
    /\ rag_result = NoReturn
    /\ sdk_calls = <<>>
    /\ sdk_outcome = None
    /\ arg_operation = ""
    /\ arg_files = <<>>
    /\ arg_auto_accept = FALSE
    /\ arg_working_dir = None
    /\ arg_max_tokens = None
    /\ arg_permission_mode = None
    /\ settings = NoSettings
    /\ code_analyzer = None
    /\ data_analyzer = None
    /\ arg_use_openai = FALSE
    /\ ran_model = None
    /\ arg_file_paths = <<>>
    /\ arg_analysis_type = ""
    /\ arg_chunk_size = 0
    /\ arg_chunk_overlap = 0

IdleWorker == sdk_client = "" /\ file = None /\ IdleFlow

IdleClaude ==
    /\ sdk_client = "" /\ sdk_calls = <<>> /\ sdk_outcome = None
    /\ arg_operation = "" /\ arg_files = <<>> /\ arg_auto_accept = FALSE
    /\ arg_working_dir = None /\ arg_max_tokens = None
    /\ arg_permission_mode = None

-----------------------------------------------------------------------------
(* run_multi_agent_sequential *)

InitSeq ==
    /\ InitCommon /\ IdleSingle /\ IdleLong /\ IdleRag /\ IdleWorker
    /\ op = "sequential"
    /\ agents \in SeqUpTo(AgentConfigs, MaxAgents)
    /\ initial_task \in {<<>>, <<"start">>}
    /\ pass_context \in BOOLEAN
    /\ current_context = initial_task
    /\ task = <<>> /\ synthesize = FALSE /\ topic = <<>> /\ rounds = 0
    /\ round_num = 0 /\ debate_history = <<>>

\* for i, agent_config in enumerate(agents)
SeqAgentConfigReversed(as, k) == as[Len(as) - k]
SeqAgentConfig(as, k) == as[k + 1]

\* context=current_context if pass_context else None
SeqContextArg(pc_flag, ctx) == IF pc_flag THEN Some(ctx) ELSE None

\* if pass_context: current_context = agent_result["output"]
SeqNextContextAccumulated(pc_flag, ctx, output) ==
    IF pc_flag THEN ctx \o output ELSE ctx
SeqNextContext(pc_flag, ctx, output) == IF pc_flag THEN output ELSE ctx

\* the early return of the loop
SeqErrorResultOffByOne(id, k, agent_result, done) ==
    [status |-> "error", task_id |-> id, failed_at_step |-> k,
     error |-> agent_result.error, completed_steps |-> done]
SeqErrorResult(id, k, agent_result, done) ==
    [status |-> "error", task_id |-> id, failed_at_step |-> k + 1,
     error |-> agent_result.error, completed_steps |-> done]

SeqStepEntry(k, role, agent_result) ==
    [step |-> k + 1, role |-> role, output |-> agent_result.output]

SeqSuccessResultFirstOutput(id, done, n) ==
    [status |-> "success", task_id |-> id, workflow_type |-> "sequential",
     steps |-> done,
     final_output |-> IF done # <<>> THEN Some(done[1].output) ELSE None,
     total_agents |-> n]
SeqSuccessResult(id, done, n) ==
    [status |-> "success", task_id |-> id, workflow_type |-> "sequential",
     steps |-> done,
     final_output |-> IF done # <<>> THEN Some(done[Len(done)].output) ELSE None,
     total_agents |-> n]

\* one iteration of the for loop
SeqStep ==
    /\ op = "sequential" /\ pc = "loop" /\ i < Len(agents)
    /\ LET agent_config == SeqAgentConfig(agents, i) IN
       IF "role" \notin DOMAIN agent_config
       THEN /\ ret' = InternalError(request_id, KeyErrorStr("role"))
            /\ pc' = "done"
            /\ UNCHANGED <<i, results, current_context, calls>>
       ELSE \E outcome \in ProviderOutcomes :
            LET role == agent_config.role
                td == Get(agent_config, "task_description", <<"Continue the work">>)
                ctx == SeqContextArg(pass_context, current_context)
                agent_result == run_single_agent(role, td, ctx, outcome)
            IN /\ calls' = Append(calls, Invocation(role, td, ctx, outcome))
               /\ IF agent_result.status = "error"
                  THEN /\ ret' = SeqErrorResult(request_id, i, agent_result, results)
                       /\ pc' = "done"
                       /\ UNCHANGED <<i, results, current_context>>
                  ELSE /\ results' = Append(results, SeqStepEntry(i, role, agent_result))
                       /\ current_context' =
                              SeqNextContext(pass_context, current_context,
                                             agent_result.output)
                       /\ i' = i + 1
                       /\ UNCHANGED <<pc, ret>>
    /\ UNCHANGED <<singleVars, longVars, ragVars, workerVars>>
    /\ UNCHANGED <<op, request_id, agents, initial_task, pass_context, task,
                   synthesize, topic, rounds, round_num, debate_history>>

\* the return after the loop
SeqReturn ==
    /\ op = "sequential" /\ pc = "loop" /\ i = Len(agents)
    /\ ret' = SeqSuccessResult(request_id, results, Len(agents))
    /\ pc' = "done"
    /\ UNCHANGED <<singleVars, longVars, ragVars, workerVars>>
    /\ UNCHANGED <<op, request_id, agents, initial_task, pass_context, task,
                   synthesize, topic, rounds, i, round_num, results,
                   current_context, debate_history, calls>>

NextSeq == SeqStep \/ SeqReturn

SpecSeq == InitSeq /\ [][NextSeq]_vars

-----------------------------------------------------------------------------
(* run_multi_agent_parallel *)

InitPar ==
    /\ InitCommon /\ IdleSingle /\ IdleLong /\ IdleRag /\ IdleWorker
    /\ op = "parallel"
    /\ agents \in SeqUpTo(AgentConfigs, MaxAgents)
    /\ task \in {<<"survey">>}
    /\ synthesize \in BOOLEAN
    /\ initial_task = <<>> /\ pass_context = FALSE /\ current_context = <<>>
    /\ topic = <<>> /\ rounds = 0 /\ round_num = 0 /\ debate_history = <<>>

\* {"role": role, "output": agent_result["output"], "status": agent_result["status"]}
ParEntry(role, agent_result) ==
    [role |-> role, output |-> agent_result.output, status |-> agent_result.status]

\* f"{r['role'].upper()} PERSPECTIVE:\n{r['output']}"
ParSectionAsGiven(r) == <<r.role, " PERSPECTIVE:\n">> \o r.output
ParSection(r) == <<Upper(r.role), " PERSPECTIVE:\n">> \o r.output

\* "\n\n".join([... for r in results if r["status"] == "success"])
ParSynthesisContext(rs) ==
    LET good == SelectSeq(rs, LAMBDA r : r.status = "success")
    IN Join(<<"\n\n">>, [k \in 1..Len(good) |-> ParSection(good[k])])

SynthesisTask ==
    <<"Synthesize all the perspectives below into a comprehensive, cohesive response.">>

ParResult(id, rs, final_output, n) ==
    [status |-> "success", task_id |-> id, workflow_type |-> "parallel",
     agent_outputs |-> rs, final_synthesis |-> final_output, total_agents |-> n,
     successful_agents |-> Len(SelectSeq(rs, LAMBDA r : r.status = "success"))]

\* one iteration of the for loop
ParStep ==
    /\ op = "parallel" /\ pc = "loop" /\ i < Len(agents)
    /\ LET agent_config == agents[i + 1] IN
       IF "role" \notin DOMAIN agent_config
       THEN /\ ret' = InternalError(request_id, KeyErrorStr("role"))
            /\ pc' = "done"
            /\ UNCHANGED <<i, results, calls>>
       ELSE \E outcome \in ProviderOutcomes :
            LET role == agent_config.role
                custom_task == Get(agent_config, "custom_instructions", task)
                agent_result == run_single_agent(role, custom_task, None, outcome)
            IN /\ calls' = Append(calls, Invocation(role, custom_task, None, outcome))
               /\ IF "output" \notin DOMAIN agent_result
                  THEN /\ ret' = InternalError(request_id, KeyErrorStr("output"))
                       /\ pc' = "done"
                       /\ UNCHANGED <<i, results>>
                  ELSE /\ results' = Append(results, ParEntry(role, agent_result))
                       /\ i' = i + 1
                       /\ UNCHANGED <<pc, ret>>
    /\ UNCHANGED <<singleVars, longVars, ragVars, workerVars>>
    /\ UNCHANGED <<op, request_id, agents, initial_task, pass_context, task,
                   synthesize, topic, rounds, round_num, current_context,
                   debate_history>>

\* for agent_config in agents: the loop has gone through every agent
ParLoopExhaustedEarly(k, as) == k >= 1 \/ k = Len(as)
ParLoopExhausted(k, as) == k = Len(as)

\* the code after the loop: optional synthesis, then the return
ParFinish ==
    /\ op = "parallel" /\ pc = "loop" /\ ParLoopExhausted(i, agents)
    /\ IF synthesize /\ results # <<>>
       THEN \E outcome \in ProviderOutcomes :
            LET synthesis_context == Some(ParSynthesisContext(results))
                synthesis == run_single_agent("synthesizer", SynthesisTask,
                                              synthesis_context, outcome)
                final_output == IF "output" \in DOMAIN synthesis
                                THEN Some(synthesis.output) ELSE None
            IN /\ calls' = Append(calls, Invocation("synthesizer", SynthesisTask,
                                                    synthesis_context, outcome))
               /\ ret' = ParResult(request_id, results, final_output, Len(agents))
       ELSE /\ ret' = ParResult(request_id, results, None, Len(agents))
            /\ UNCHANGED calls
    /\ pc' = "done"
    /\ UNCHANGED <<singleVars, longVars, ragVars, workerVars>>
    /\ UNCHANGED <<op, request_id, agents, initial_task, pass_context, task,
                   synthesize, topic, rounds, i, round_num, results,
                   current_context, debate_history>>

NextPar == ParStep \/ ParFinish

SpecPar == InitPar /\ [][NextPar]_vars

-----------------------------------------------------------------------------
(* run_agent_debate *)

DebateRoles == {"researcher", "Critic"}

\* if agents is None: agents = ["researcher", "critic"]
DebateRoster(arg) == IF arg = None THEN <<"researcher", "critic">> ELSE arg.val

InitDebate ==
    /\ InitCommon /\ IdleSingle /\ IdleLong /\ IdleRag /\ IdleWorker
    /\ op = "debate"
    /\ \E arg \in {None} \cup {Some(r) : r \in SeqUpTo(DebateRoles, MaxRoster)} :
           agents = DebateRoster(arg)
    /\ topic \in {<<"tabs or spaces">>}
    /\ rounds \in 0..MaxRounds
    /\ round_num = 1
    /\ debate_history = <<>>
    /\ initial_task = <<>> /\ pass_context = FALSE /\ current_context = <<>>
    /\ task = <<>> /\ synthesize = FALSE

\* f"Round {h['round']}, {h['role']}: {h['argument']}"
DebateLine(h) == <<"Round ", IntStr(h.round), ", ", h.role, ": ">> \o h.argument

\* "\n\n".join([... for h in debate_history])
DebateContext(history) ==
    Join(<<"\n\n">>, [k \in 1..Len(history) |-> DebateLine(history[k])])

\* the task of one turn
DebateTask(tp, rn, context) ==
    <<"Topic: ">> \o tp \o <<"\n\nProvide your argument for round ", IntStr(rn), ".">>
    \o (IF context # <<>> THEN <<"\n\nPrevious arguments:\n">> \o context ELSE <<>>)

ConclusionTask(tp) ==
    <<"Synthesize the debate on '">> \o tp \o <<"' and provide a balanced conclusion.">>

\* for round_num in range(1, rounds + 1)
DebateInRangeShort(rn, n) == rn < n
DebateInRange(rn, n) == rn <= n

DebateEntry(rn, role, response) ==
    [round |-> rn, role |-> role, argument |-> response.output]

DebateResult(id, tp, n, history, conclusion) ==
    [status |-> "success", task_id |-> id, topic |-> tp, rounds |-> n,
     debate_transcript |-> history, conclusion |-> conclusion.output]

\* one iteration of the inner loop: one turn of one role
DebateTurn ==
    /\ op = "debate" /\ pc = "loop"
    /\ DebateInRange(round_num, rounds) /\ i < Len(agents)
    /\ \E outcome \in ProviderOutcomes :
       LET role == agents[i + 1]
           context == DebateContext(debate_history)
           turn_task == DebateTask(topic, round_num, context)
           response == run_single_agent(role, turn_task, None, outcome)
       IN /\ calls' = Append(calls, Invocation(role, turn_task, None, outcome))
          /\ IF "output" \notin DOMAIN response
             THEN /\ ret' = InternalError(request_id, KeyErrorStr("output"))
                  /\ pc' = "done"
                  /\ UNCHANGED <<i, debate_history>>
             ELSE /\ debate_history' =
                         Append(debate_history, DebateEntry(round_num, role, response))
                  /\ i' = i + 1
                  /\ UNCHANGED <<pc, ret>>
    /\ UNCHANGED <<singleVars, longVars, ragVars, workerVars>>
    /\ UNCHANGED <<op, request_id, agents, initial_task, pass_context, task,
                   synthesize, topic, rounds, round_num, results, current_context>>

\* the inner loop is exhausted: the outer loop takes the next round
DebateNextRound ==
    /\ op = "debate" /\ pc = "loop"
    /\ DebateInRange(round_num, rounds) /\ i = Len(agents)
    /\ round_num' = round_num + 1
    /\ i' = 0
    /\ UNCHANGED <<singleVars, longVars, ragVars, workerVars>>
    /\ UNCHANGED <<op, pc, request_id, agents, initial_task, pass_context, task,
                   synthesize, topic, rounds, results, current_context,
                   debate_history, calls, ret>>

\* the code after the loops: the synthesizer's conclusion, then the return
DebateConclude ==
    /\ op = "debate" /\ pc = "loop"
    /\ ~DebateInRange(round_num, rounds)
    /\ \E outcome \in ProviderOutcomes :
       LET synthesis_context == Some(DebateContext(debate_history))
           conclusion == run_single_agent("synthesizer", ConclusionTask(topic),
                                          synthesis_context, outcome)
       IN /\ calls' = Append(calls, Invocation("synthesizer", ConclusionTask(topic),
                                               synthesis_context, outcome))
          /\ ret' = IF "output" \notin DOMAIN conclusion
                    THEN InternalError(request_id, KeyErrorStr("output"))
                    ELSE DebateResult(request_id, topic, rounds, debate_history,
                                      conclusion)
    /\ pc' = "done"
    /\ UNCHANGED <<singleVars, longVars, ragVars, workerVars>>
    /\ UNCHANGED <<op, request_id, agents, initial_task, pass_context, task,
                   synthesize, topic, rounds, i, round_num, results,
                   current_context, debate_history>>

NextDebate == DebateTurn \/ DebateNextRound \/ DebateConclude

SpecDebate == InitDebate /\ [][NextDebate]_vars

-----------------------------------------------------------------------------
(* run_single_agent run as a task of its own *)

\* the provider outcomes of the single-agent runs: an exception may have an
\* empty message
SingleOutcomes == ProviderOutcomes \cup {[raised |-> TRUE, message |-> <<>>]}

\* an exception that left the task function
Escaped(msg) == [returned |-> FALSE, escaped |-> TRUE, exc |-> msg]

\* what the provider is sent
ProviderCall(role, task_description, context, custom) ==
    [role |-> role, task_description |-> task_description, context |-> context,
     system |-> ResolveSystemPrompt(custom, role),
     prompt |-> BuildPrompt(task_description, context)]

InitSingle ==
    /\ InitCommon /\ IdleLong /\ IdleRag /\ IdleWorker
    /\ op = "single"
    /\ arg_role \in RoleNames
    /\ arg_task_description \in {<<"summarise">>}
    /\ arg_context \in {None, Some(<<>>), Some(<<"notes">>)}
    /\ arg_custom_system_prompt \in {None, Some(""), Some("Be terse.")}
    /\ last_outcome = None
    /\ agents = <<>> /\ initial_task = <<>> /\ pass_context = FALSE
    /\ current_context = <<>> /\ task = <<>> /\ synthesize = FALSE
    /\ topic = <<>> /\ rounds = 0 /\ round_num = 0 /\ debate_history = <<>>

\* the whole of run_single_agent
SingleAgentRun ==
    /\ op = "single" /\ pc = "loop"
    /\ \E o \in SingleOutcomes :
       LET r == RunSingleAgentTask(request_id, arg_role, o)
       IN /\ last_outcome' = Some(o)
          /\ calls' = Append(calls, ProviderCall(arg_role, arg_task_description,
                                                 arg_context, arg_custom_system_prompt))
          /\ ret' = IF r.raised THEN Escaped(r.exc) ELSE r.value
    /\ pc' = "done"
    /\ UNCHANGED <<longVars, ragVars, workerVars>>
    /\ UNCHANGED <<arg_role, arg_task_description, arg_context,
                   arg_custom_system_prompt>>
    /\ UNCHANGED <<op, request_id, agents, initial_task, pass_context, task,
                   synthesize, topic, rounds, i, round_num, results,
                   current_context, debate_history>>

NextSingle == SingleAgentRun

SpecSingle == InitSingle /\ [][NextSingle]_vars

-----------------------------------------------------------------------------
(* LongRunningTaskResult, LongRunningTaskAgent.execute_task, run_long_task *)

MaxInvocations == 2

TaskStatus == {"pending", "in_progress", "completed", "failed"}

\* dicts of opaque content are sets of key/value pairs
EmptyDict == {}
Checkpoint == {<<"cursor", "c1">>}

\* str(d) of a dict with at most one item
DictStr(d) ==
    IF d = EmptyDict THEN <<"{}">>
    ELSE LET kv == CHOOSE kv \in d : TRUE IN <<"{'", kv[1], "': '", kv[2], "'}">>

RequestIds == {"task-1", "task-2"}

\* what the model can generate for result_type=LongRunningTaskResult; an
\* optional field that is None was not supplied
WellFormedPayloads ==
    [task_id : {"task-1"},
     status : {Some(st) : st \in TaskStatus},
     progress_percentage : {0, 100},
     current_step : {"working"},
     steps_completed : {0, 2},
     total_steps : {1},
     result : {None, Some({<<"answer", "42">>})},
     error_message : {None, Some(<<"step failed">>)},
     checkpoint_data : {None, Some(Checkpoint)},
     started_at : {None}]

BasePayload ==
    [task_id |-> "task-1", status |-> Some("in_progress"),
     progress_percentage |-> 0, current_step |-> "working",
     steps_completed |-> 0, total_steps |-> 1, result |-> None,
     error_message |-> None, checkpoint_data |-> None, started_at |-> Some(0)]

\* the model writes a task_id of its own into the payload
InventedIdPayload == [BasePayload EXCEPT !.task_id = "made-up"]

\* payloads that break one constraint of the schema, or lack a required field
MalformedPayloads ==
    {[BasePayload EXCEPT !.progress_percentage = -1],
     [BasePayload EXCEPT !.progress_percentage = 101],
     [BasePayload EXCEPT !.steps_completed = -1],
     [BasePayload EXCEPT !.total_steps = 0],
     [BasePayload EXCEPT !.status = Some("paused")],
     [BasePayload EXCEPT !.status = None]}

Payloads ==
    WellFormedPayloads \cup {BasePayload, InventedIdPayload} \cup MalformedPayloads

\* agent.run: the model answers with a payload, or the provider call fails
AgentRunOutcomes ==
    {[raised |-> FALSE, data |-> p] : p \in Payloads}
    \cup {[raised |-> TRUE, message |-> m] : m \in ErrorMessages}

\* the Field constraints of LongRunningTaskResult
ProgressInBoundsNoUpper(p) == p.progress_percentage >= 0
ProgressInBounds(p) == p.progress_percentage >= 0 /\ p.progress_percentage <= 100

SchemaAccepts(p) ==
    /\ p.status.some /\ p.status.val \in TaskStatus
    /\ ProgressInBounds(p)
    /\ p.steps_completed >= 0
    /\ p.total_steps >= 1

\* the validated model: defaults filled in, the factories read the clock
LongRunningTaskResult(p, now) ==
    [task_id |-> p.task_id, status |-> p.status.val,
     progress_percentage |-> p.progress_percentage,
     current_step |-> p.current_step,
     steps_completed |-> p.steps_completed, total_steps |-> p.total_steps,
     result |-> p.result, error_message |-> p.error_message,
     checkpoint_data |-> IF p.checkpoint_data.some THEN p.checkpoint_data.val
                         ELSE EmptyDict,
     started_at |-> IF p.started_at.some THEN p.started_at.val ELSE now,
     updated_at |-> now]

ValidationError == <<"validation error for LongRunningTaskResult">>

\* self.agent.run(prompt) of an Agent with result_type=LongRunningTaskResult
AgentRun(o, now) ==
    IF o.raised THEN Raise(o.message)
    ELSE IF ~SchemaAccepts(o.data) THEN Raise(ValidationError)
    ELSE Return(LongRunningTaskResult(o.data, now))

\* the prompt of execute_task
LongTaskPrompt(task_id, task_description, checkpoint) ==
    LET resume_info == IF checkpoint.some /\ checkpoint.val # EmptyDict
                       THEN <<"\n\nResuming from checkpoint: ">> \o DictStr(checkpoint.val)
                       ELSE <<>>
    IN <<"Execute the following task:\n\nTask ID: ", task_id, "\nDescription: ">>
       \o task_description \o resume_info
       \o <<"\n\nTrack your progress and provide checkpoint data for potential resumption.\nUpdate the status and progress percentage accurately.">>

\* LongRunningTaskAgent.execute_task: result.data, or the exception re-raised
execute_task(task_id, task_description, checkpoint, o, now) == AgentRun(o, now)

\* result.model_dump()
model_dump(m) == [k \in DOMAIN m |-> m[k]]

LongTaskSuccessUnlessFailed(id, result) ==
    IF result.status = "failed"
    THEN [status |-> "error", task_id |-> id, error |-> <<"task failed">>]
    ELSE [status |-> "success", task_id |-> id, result |-> model_dump(result)]
LongTaskSuccess(id, result) ==
    [status |-> "success", task_id |-> id, result |-> model_dump(result)]

\* run_long_task: except Exception as e
LongTaskExceptAsFailedSnapshot(id, r) ==
    IF r.raised
    THEN [status |-> "success", task_id |-> id,
          result |-> [task_id |-> id, status |-> "failed",
                      progress_percentage |-> 0, current_step |-> "failed",
                      steps_completed |-> 0, total_steps |-> 1, result |-> None,
                      error_message |-> Some(r.exc), checkpoint_data |-> EmptyDict,
                      started_at |-> 0, updated_at |-> 0]]
    ELSE LongTaskSuccess(id, r.value)
LongTaskExcept(id, r) ==
    IF r.raised THEN InternalError(id, r.exc) ELSE LongTaskSuccess(id, r.value)

\* the dict run_long_task returns
run_long_task(id, task_description, checkpoint, o, now) ==
    LongTaskExcept(id, execute_task(id, task_description, checkpoint, o, now))

\* the checkpoint a caller passes: none, or the one of the previous snapshot
NextCheckpoints(previous) ==
    {None} \cup (IF "status" \in DOMAIN previous /\ previous.status = "success"
                 THEN {Some(previous.result.checkpoint_data)} ELSE {})

InitLong ==
    /\ InitCommon /\ IdleSingle /\ IdleLong /\ IdleRag /\ IdleWorker
    /\ op = "long_task"
    /\ agents = <<>> /\ initial_task = <<>> /\ pass_context = FALSE
    /\ current_context = <<>> /\ task = <<>> /\ synthesize = FALSE
    /\ topic = <<>> /\ rounds = 0 /\ round_num = 0 /\ debate_history = <<>>

\* one invocation of run_long_task, from the queue's delivery to its return
LongTaskRun ==
    /\ op = "long_task" /\ invocations < MaxInvocations
    /\ \E id \in RequestIds, checkpoint \in NextCheckpoints(ret), o \in AgentRunOutcomes :
       LET now == clock + 1
           envelope == run_long_task(id, <<"migrate">>, checkpoint, o, now)
       IN /\ request_id' = id
          /\ arg_checkpoint_data' = checkpoint
          /\ arg_task_description' = <<"migrate">>
          /\ clock' = now
          /\ last_outcome' = Some(o)
          /\ ret' = envelope
          /\ resumed_from' = IF checkpoint = None THEN None ELSE Some(request_id)
          /\ first_started_at' =
                 IF checkpoint # None /\ first_started_at # None
                 THEN first_started_at
                 ELSE IF envelope.status = "success"
                      THEN Some(envelope.result.started_at) ELSE None
    /\ invocations' = invocations + 1
    /\ provider_calls' = provider_calls + 1
    /\ pc' = "done"
    /\ UNCHANGED <<ragVars, workerVars>>
    /\ UNCHANGED <<arg_role, arg_context, arg_custom_system_prompt>>
    /\ UNCHANGED <<op, agents, initial_task, pass_context, task, synthesize,
                   topic, rounds, i, round_num, results, current_context,
                   debate_history, calls>>

NextLong == LongTaskRun

SpecLong == InitLong /\ [][NextLong]_vars

-----------------------------------------------------------------------------
(* VectorStoreService.search, LLMClient.generate_with_context,            *)
(* query_with_context                                                      *)

MaxQueries == 2

\* the vector index maps the name of every collection that exists to its
\* entries, nearest to the query first
CollectionNames == {"kb", "notes"}
EntryA == [document |-> <<"doc-a">>, metadata |-> {<<"source", "a.txt">>}]
EntryB == [document |-> <<"doc-b">>, metadata |-> {}]
NoCollections == [c \in {} |-> <<>>]
Stores ==
    {NoCollections,
     [c \in {"kb"} |-> <<>>],
     [c \in {"kb"} |-> <<EntryA>>],
     [c \in {"kb"} |-> <<EntryA, EntryB>>]}

\* client.get_or_create_collection(name)
get_or_create_collection(st, name) ==
    [c \in DOMAIN st \cup {name} |-> IF c \in DOMAIN st THEN st[c] ELSE <<>>]

\* what chromadb and the embedding model can do in one search
IndexOutcomes == {"ok", "create_raises", "encode_raises", "query_raises"}
IndexError(io) == <<"index error: ", io>>

\* collection.query(..., n_results): the n_results nearest entries
QueryCollection(entries, n_results) ==
    LET m == IF n_results < Len(entries) THEN n_results ELSE Len(entries)
    IN [documents |-> [k \in 1..m |-> entries[k].document],
        metadatas |-> [k \in 1..m |-> entries[k].metadata],
        distances |-> [k \in 1..m |-> k],
        ids |-> [k \in 1..m |-> k]]

\* VectorStoreService.search: the index afterwards, and the dict returned or
\* the exception re-raised
search(st, collection_name, query, n_results, io) ==
    IF io = "create_raises" THEN [store |-> st, r |-> Raise(IndexError(io))]
    ELSE LET created == get_or_create_collection(st, collection_name)
         IN IF io # "ok" THEN [store |-> created, r |-> Raise(IndexError(io))]
            ELSE [store |-> created,
                  r |-> Return([status |-> "success", query |-> query,
                                results |-> QueryCollection(created[collection_name],
                                                            n_results)])]

\* "\n\n".join(f"Document {i+1}:\n{doc}" ...)
ContextText(context_documents) ==
    Join(<<"\n\n">>, [k \in 1..Len(context_documents) |->
                         <<"Document ", IntStr(k), ":\n">> \o context_documents[k]])

EnhancedPrompt(prompt, context_documents) ==
    <<"Here is relevant context from the knowledge base:\n\n">>
    \o ContextText(context_documents)
    \o <<"\n\nBased on the above context, please answer the following question:\n\n">>
    \o prompt

GroundingInstruction ==
    "You are a helpful AI assistant. Answer questions based on the provided context. If the context doesn't contain enough information, say so."

\* system or "You are a helpful AI assistant. ..."
RagSystemPromptAsGiven(system) == IF system.some THEN system.val ELSE ""
RagSystemPrompt(system) ==
    IF system.some /\ system.val # "" THEN system.val ELSE GroundingInstruction

\* the arguments generate_with_context passes to self.generate
GenerateCall(prompt, context_documents, system) ==
    [prompt |-> EnhancedPrompt(prompt, context_documents),
     system |-> RagSystemPrompt(system)]

\* the generate calls of one query_with_context, given what search did
RagGenerateCallsAlways(s, query, system) ==
    <<GenerateCall(query, IF s.raised THEN <<>> ELSE s.value.results.documents, system)>>
RagGenerateCalls(s, query, system) ==
    IF s.raised THEN <<>>
    ELSE <<GenerateCall(query, s.value.results.documents, system)>>

RagSources(search_result) ==
    [documents |-> search_result.results.documents,
     metadatas |-> search_result.results.metadatas,
     distances |-> search_result.results.distances]

RagSuccess(id, query, search_result, llm_response) ==
    [status |-> "success", task_id |-> id, query |-> query,
     answer |-> llm_response.text, sources |-> RagSources(search_result),
     usage |-> llm_response.usage]

\* query_with_context: the return of the try block, or of the except block
\* when search (s) or generate_with_context (g) raised
RagReturnWithSources(id, query, s, g) ==
    IF s.raised THEN InternalError(id, s.exc)
    ELSE IF g.raised
         THEN [status |-> "error", task_id |-> id, error |-> g.exc,
               sources |-> RagSources(s.value)]
         ELSE RagSuccess(id, query, s.value, g.value)
RagReturn(id, query, s, g) ==
    IF s.raised THEN InternalError(id, s.exc)
    ELSE IF g.raised THEN InternalError(id, g.exc)
    ELSE RagSuccess(id, query, s.value, g.value)

\* the whole of query_with_context: the index afterwards, the generate calls
\* made and the dict returned
query_with_context(id, st, collection_name, query, n_context_docs, system, io, outcome) ==
    LET found == search(st, collection_name, query, n_context_docs, io)
    IN [store |-> found.store,
        calls |-> RagGenerateCalls(found.r, query, system),
        result |-> RagReturn(id, query, found.r, generate(outcome))]

RagQuery == <<"what is new?">>

\* search_documents: the index afterwards and the dict returned
search_documents(id, st, collection_name, query, n_results, io) ==
    LET s == search(st, collection_name, query, n_results, io)
    IN [store |-> s.store,
        result |-> IF s.r.raised THEN InternalError(id, s.r.exc)
                   ELSE [status |-> "success", task_id |-> id, query |-> query,
                         results |-> s.r.value.results]]

InitRag ==
    /\ InitCommon /\ IdleSingle /\ IdleLong /\ IdleWorker
    /\ op \in {"rag", "rag_search"}
    /\ store \in Stores
    /\ arg_collection_name = "" /\ arg_n_context_docs = 0
    /\ arg_system_prompt = None /\ index_outcome = "" /\ llm_calls = <<>>
    /\ agents = <<>> /\ initial_task = <<>> /\ pass_context = FALSE
    /\ current_context = <<>> /\ task = <<>> /\ synthesize = FALSE
    /\ topic = <<>> /\ rounds = 0 /\ round_num = 0 /\ debate_history = <<>>

\* one invocation of query_with_context, from delivery to return
RagQueryRun ==
    /\ op = "rag" /\ i < MaxQueries
    /\ \E collection_name \in CollectionNames, n \in 1..2,
          system \in {None, Some(""), Some("Be terse.")},
          io \in IndexOutcomes, o \in ProviderOutcomes :
       LET q == query_with_context(request_id, store, collection_name, RagQuery,
                                   n, system, io, o)
       IN /\ arg_collection_name' = collection_name
          /\ arg_n_context_docs' = n
          /\ arg_system_prompt' = system
          /\ index_outcome' = io
          /\ last_outcome' = IF q.calls = <<>> THEN None ELSE Some(o)
          /\ store' = q.store
          /\ llm_calls' = q.calls
          /\ ret' = q.result
    /\ i' = i + 1
    /\ pc' = "done"
    /\ UNCHANGED <<longVars, workerVars>>
    /\ UNCHANGED <<arg_role, arg_task_description, arg_context,
                   arg_custom_system_prompt>>
    /\ UNCHANGED <<op, request_id, agents, initial_task, pass_context, task,
                   synthesize, topic, rounds, round_num, results,
                   current_context, debate_history, calls>>

\* one invocation of search_documents, from delivery to return
SearchDocumentsRun ==
    /\ op = "rag_search" /\ i < MaxQueries
    /\ \E collection_name \in CollectionNames, n \in 1..2, io \in IndexOutcomes :
       LET q == search_documents(request_id, store, collection_name, RagQuery, n, io)
       IN /\ arg_collection_name' = collection_name
          /\ arg_n_context_docs' = n
          /\ index_outcome' = io
          /\ store' = q.store
          /\ ret' = q.result
    /\ i' = i + 1
    /\ pc' = "done"
    /\ UNCHANGED <<longVars, workerVars, arg_system_prompt, llm_calls>>
    /\ UNCHANGED <<arg_role, arg_task_description, arg_context,
                   arg_custom_system_prompt, last_outcome>>
    /\ UNCHANGED <<op, request_id, agents, initial_task, pass_context, task,
                   synthesize, topic, rounds, round_num, results,
                   current_context, debate_history, calls>>

NextRag == RagQueryRun \/ SearchDocumentsRun

SpecRag == InitRag /\ [][NextRag]_vars

-----------------------------------------------------------------------------
(* debug_task, ClaudeAgentClient, the claude-agent tasks                   *)

\* no multi-agent function is running
IdleAgents ==
    /\ agents = <<>> /\ initial_task = <<>> /\ pass_context = FALSE
    /\ current_context = <<>> /\ task = <<>> /\ synthesize = FALSE
    /\ topic = <<>> /\ rounds = 0 /\ round_num = 0 /\ debate_history = <<>>

\* debug_task
debug_task == [status |-> "ok", message |-> "Worker is running"]

InitDebug ==
    /\ InitCommon /\ IdleSingle /\ IdleLong /\ IdleRag /\ IdleWorker /\ IdleAgents
    /\ op = "debug"

DebugTaskRun ==
    /\ op = "debug" /\ pc = "loop"
    /\ ret' = debug_task
    /\ pc' = "done"
    /\ UNCHANGED <<singleVars, longVars, ragVars, workerVars>>
    /\ UNCHANGED <<op, request_id, agents, initial_task, pass_context, task,
                   synthesize, topic, rounds, i, round_num, results,
                   current_context, debate_history, calls>>

\* how ClaudeAgentClient() ended: usable; disabled because the SDK is not
\* installed; ValueError because no API key is set; AttributeError because the
\* settings object in use does not define claude_sdk_permission_mode
SdkClients == {"available", "unavailable", "no_api_key", "no_settings_attribute"}

\* what the SDK's query does once it is called
SdkOutcomes ==
    {[kind |-> "messages", text |-> <<"done">>],
     [kind |-> "cli_not_found", message |-> <<"claude not found">>],
     [kind |-> "raises", message |-> <<"sdk crashed">>]}

\* the parameters of ClaudeAgentClient.query_simple
QuerySimpleParameters == {"prompt", "working_dir", "max_turns", "permission_mode"}

UnexpectedKeyword(kw) ==
    <<"query_simple() got an unexpected keyword argument '", kw, "'">>

\* client.query_simple(**kwargs) on a usable client: binding the keyword
\* arguments comes before the body
query_simple(kwargs, o) ==
    IF kwargs \ QuerySimpleParameters # {}
    THEN Raise(UnexpectedKeyword(CHOOSE kw \in kwargs \ QuerySimpleParameters : TRUE))
    ELSE CASE o.kind = "messages" ->
                Return([status |-> "success", text |-> o.text,
                        messages |-> <<o.text>>, message_count |-> 1])
           [] o.kind = "cli_not_found" ->
                Return([status |-> "error", error |-> "cli_not_found",
                        message |-> o.message])
           [] o.kind = "raises" ->
                Return([status |-> "error", error |-> "query_failed",
                        message |-> o.message])

\* {**result, "task_id": self.request.id}
WithoutTaskId(result, id) == result
WithTaskId(result, id) ==
    [k \in DOMAIN result \cup {"task_id"} |-> IF k = "task_id" THEN id ELSE result[k]]

SdkUnavailable(id, message) ==
    [status |-> "error", task_id |-> id, error |-> "sdk_unavailable",
     message |-> message]

\* the except block of the claude-agent tasks
ClaudeTaskFailedReraise(id, msg) == Escaped(msg)
ClaudeTaskFailed(id, msg) ==
    [status |-> "error", task_id |-> id, error |-> "task_failed", message |-> msg]

NoApiKey == <<"ANTHROPIC_API_KEY not set in environment">>
NoSettingsAttribute ==
    <<"'Settings' object has no attribute 'claude_sdk_permission_mode'">>

\* the exception get_claude_agent_client() raises when the constructor fails
ClientConstructionError(client) ==
    IF client = "no_api_key" THEN NoApiKey ELSE NoSettingsAttribute

ClientConstructed(client) == client \in {"available", "unavailable"}

\* settings.claude_sdk_permission_mode and settings.claude_sdk_working_dir
DefaultPermissionMode == "plan"
DefaultWorkingDir == "."

\* the ClaudeAgentOptions query_simple builds
QueryOptions(permission_mode, working_dir) ==
    [permission_mode |-> IF permission_mode.some /\ permission_mode.val # ""
                         THEN permission_mode.val ELSE DefaultPermissionMode,
     cwd |-> IF working_dir.some /\ working_dir.val # ""
             THEN working_dir.val ELSE DefaultWorkingDir]

\* the queries a task sends to the SDK: one when the client is usable and the
\* call of query_simple binds, none otherwise
SdkCalls(client, kwargs, options) ==
    IF client = "available" /\ kwargs \subseteq QuerySimpleParameters
    THEN <<options>> ELSE <<>>

\* permission_mode = "acceptEdits" if auto_accept else "plan"
ExecutePermissionModeAlwaysAccept(auto_accept) == "acceptEdits"
ExecutePermissionMode(auto_accept) == IF auto_accept THEN "acceptEdits" ELSE "plan"

\* permission_mode = "acceptEdits" if operation in ["write", "edit"] else "plan"
FilePermissionModeAlwaysAccept(operation) == "acceptEdits"
FilePermissionMode(operation) ==
    IF operation \in {"write", "edit"} THEN "acceptEdits" ELSE "plan"

\* analyze_codebase and run_tests: permission_mode="plan"
ReadOnlyPermissionMode == "plan"

\* the keyword arguments claude_agent_query_task passes to query_simple
ClaudeQueryKwargs == {"prompt", "working_dir", "max_tokens", "permission_mode"}
\* the keyword arguments client.execute_code_task passes to query_simple
ExecuteCodeKwargs == {"prompt", "working_dir", "permission_mode"}

\* a claude-agent task that ends in client.query_simple(**kwargs)
ClaudeTask(id, client, unavailable_message, kwargs, o) ==
    IF ~ClientConstructed(client)
    THEN ClaudeTaskFailed(id, ClientConstructionError(client))
    ELSE IF client = "unavailable" THEN SdkUnavailable(id, unavailable_message)
    ELSE LET result == query_simple(kwargs, o)
         IN IF result.raised THEN ClaudeTaskFailed(id, result.exc)
            ELSE WithTaskId(result.value, id)

claude_agent_query_task(id, client, o) ==
    ClaudeTask(id, client,
               "Claude Agent SDK is not available. Please install claude-agent-sdk and Claude Code CLI.",
               ClaudeQueryKwargs, o)

execute_code_task(id, client, o) ==
    ClaudeTask(id, client, "Claude Agent SDK is not available", ExecuteCodeKwargs, o)

\* analyze_codebase_task and run_tests_task
analyze_codebase_task(id, client, o) ==
    ClaudeTask(id, client, "Claude Agent SDK is not available", ExecuteCodeKwargs, o)

run_tests_task(id, client, o) ==
    ClaudeTask(id, client, "Claude Agent SDK is not available", ExecuteCodeKwargs, o)

FileOperations == {"read", "write", "edit", "analyze"}

InvalidOperation(id, operation) ==
    [status |-> "error", task_id |-> id, error |-> "invalid_operation",
     message |-> <<"Unknown operation: ", operation>>]

\* files[0] of an empty list
ListIndexError == <<"list index out of range">>

\* building the prompt raises
FilePromptRaises(operation, files) == operation = "write" /\ files = <<>>

\* {**result, "task_id": ..., "operation": operation, "files": files}
WithOperation(result, id, operation, files) ==
    [k \in DOMAIN result \cup {"task_id", "operation", "files"} |->
        CASE k = "task_id" -> id
          [] k = "operation" -> operation
          [] k = "files" -> files
          [] OTHER -> result[k]]

\* file_operations_task: whether it reaches client.query_simple
FileOperationQueries(client, operation, files) ==
    /\ client = "available" /\ operation \in FileOperations
    /\ ~FilePromptRaises(operation, files)

file_operations_task(id, client, operation, files, o) ==
    IF ~ClientConstructed(client)
    THEN ClaudeTaskFailed(id, ClientConstructionError(client))
    ELSE IF client = "unavailable"
    THEN SdkUnavailable(id, "Claude Agent SDK is not available")
    ELSE IF operation \notin FileOperations THEN InvalidOperation(id, operation)
    ELSE IF FilePromptRaises(operation, files) THEN ClaudeTaskFailed(id, ListIndexError)
    ELSE WithOperation(query_simple(ExecuteCodeKwargs, o).value, id, operation, files)

ClaudeOps ==
    {"claude_query", "execute_code", "analyze_codebase", "run_tests",
     "file_operations"}

WorkingDirs == {None, Some("/srv/app")}

InitClaude ==
    /\ InitCommon /\ IdleSingle /\ IdleLong /\ IdleRag /\ IdleAgents
    /\ op \in ClaudeOps
    /\ sdk_client \in SdkClients
    /\ file = None /\ IdleFlow

ClaudeQueryRun ==
    /\ op = "claude_query" /\ pc = "loop"
    /\ \E o \in SdkOutcomes, working_dir \in WorkingDirs,
          max_tokens \in {None, Some(4000)},
          permission_mode \in {None, Some("plan"), Some("acceptEdits")} :
          /\ ret' = claude_agent_query_task(request_id, sdk_client, o)
          /\ sdk_calls' = SdkCalls(sdk_client, ClaudeQueryKwargs,
                                   QueryOptions(permission_mode, working_dir))
          /\ sdk_outcome' = Some(o)
          /\ arg_working_dir' = working_dir
          /\ arg_max_tokens' = max_tokens
          /\ arg_permission_mode' = permission_mode
    /\ pc' = "done"
    /\ UNCHANGED <<sdk_client, flowVars, analysisVars, arg_operation, arg_files,
                   arg_auto_accept>>
    /\ UNCHANGED <<singleVars, longVars, ragVars>>
    /\ UNCHANGED <<op, request_id, agents, initial_task, pass_context, task,
                   synthesize, topic, rounds, i, round_num, results,
                   current_context, debate_history, calls>>

ExecuteCodeRun ==
    /\ op = "execute_code" /\ pc = "loop"
    /\ \E o \in SdkOutcomes, working_dir \in WorkingDirs, auto_accept \in BOOLEAN :
          /\ ret' = execute_code_task(request_id, sdk_client, o)
          /\ sdk_calls' = SdkCalls(sdk_client, ExecuteCodeKwargs,
                                   QueryOptions(Some(ExecutePermissionMode(auto_accept)),
                                                working_dir))
          /\ sdk_outcome' = Some(o)
          /\ arg_working_dir' = working_dir
          /\ arg_auto_accept' = auto_accept
    /\ pc' = "done"
    /\ UNCHANGED <<sdk_client, flowVars, analysisVars, arg_operation, arg_files,
                   arg_max_tokens, arg_permission_mode>>
    /\ UNCHANGED <<singleVars, longVars, ragVars>>
    /\ UNCHANGED <<op, request_id, agents, initial_task, pass_context, task,
                   synthesize, topic, rounds, i, round_num, results,
                   current_context, debate_history, calls>>

\* analyze_codebase_task and run_tests_task
ReadOnlyTaskRun ==
    /\ op \in {"analyze_codebase", "run_tests"} /\ pc = "loop"
    /\ \E o \in SdkOutcomes, working_dir \in WorkingDirs :
          /\ ret' = IF op = "analyze_codebase"
                    THEN analyze_codebase_task(request_id, sdk_client, o)
                    ELSE run_tests_task(request_id, sdk_client, o)
          /\ sdk_calls' = SdkCalls(sdk_client, ExecuteCodeKwargs,
                                   QueryOptions(Some(ReadOnlyPermissionMode),
                                                working_dir))
          /\ sdk_outcome' = Some(o)
          /\ arg_working_dir' = working_dir
    /\ pc' = "done"
    /\ UNCHANGED <<sdk_client, flowVars, analysisVars, arg_operation, arg_files,
                   arg_auto_accept, arg_max_tokens, arg_permission_mode>>
    /\ UNCHANGED <<singleVars, longVars, ragVars>>
    /\ UNCHANGED <<op, request_id, agents, initial_task, pass_context, task,
                   synthesize, topic, rounds, i, round_num, results,
                   current_context, debate_history, calls>>

FileOperationsRun ==
    /\ op = "file_operations" /\ pc = "loop"
    /\ \E o \in SdkOutcomes, working_dir \in WorkingDirs,
          operation \in FileOperations \cup {"delete", "Write"},
          files \in {<<>>, <<"a.py">>} :
          /\ ret' = file_operations_task(request_id, sdk_client, operation, files, o)
          /\ sdk_calls' = IF FileOperationQueries(sdk_client, operation, files)
                          THEN SdkCalls(sdk_client, ExecuteCodeKwargs,
                                        QueryOptions(Some(FilePermissionMode(operation)),
                                                     working_dir))
                          ELSE <<>>
          /\ sdk_outcome' = Some(o)
          /\ arg_working_dir' = working_dir
          /\ arg_operation' = operation
          /\ arg_files' = files
    /\ pc' = "done"
    /\ UNCHANGED <<sdk_client, flowVars, analysisVars, arg_auto_accept, arg_max_tokens,
                   arg_permission_mode>>
    /\ UNCHANGED <<singleVars, longVars, ragVars>>
    /\ UNCHANGED <<op, request_id, agents, initial_task, pass_context, task,
                   synthesize, topic, rounds, i, round_num, results,
                   current_context, debate_history, calls>>

NextClaude ==
    \/ ClaudeQueryRun \/ ExecuteCodeRun \/ ReadOnlyTaskRun \/ FileOperationsRun

SpecClaude == InitClaude /\ [][NextClaude]_vars

-----------------------------------------------------------------------------
(* DocumentProcessor, parse_document, VectorStoreService.add_documents,    *)
(* chunk_and_index                                                         *)

\* document text is a sequence of characters
DocTexts == {<<>>, <<" ", " ">>, <<"a", "b", "c">>, <<"a", " ", " ", "b">>}

\* what the file system and the reader make of file_path
Files ==
    {[state |-> st] : st \in {"missing", "stat_raises", "too_large",
                              "unsupported", "unreadable"}}
    \cup {[state |-> "readable", text |-> t] : t \in DocTexts}

FileName == "notes.txt"

\* parse_document: every return of the function
parse_document(id, f) ==
    CASE f.state = "missing" -> InternalError(id, <<"File not found: ", FileName>>)
      [] f.state = "stat_raises" -> InternalError(id, <<"stat failed">>)
      [] f.state = "too_large" -> InternalError(id, <<"File too large">>)
      [] f.state = "unsupported" ->
             InternalError(id, <<"Unsupported file format: ", ".bin">>)
      [] f.state = "unreadable" -> InternalError(id, <<"read failed">>)
      [] f.state = "readable" ->
             [status |-> "success", task_id |-> id, file_name |-> FileName,
              file_size_mb |-> 0, format |-> "txt", text |-> f.text,
              metadata |-> {<<"format", "txt">>}]

\* chunk.strip() is non-empty
StripNonEmpty(chunk) == \E k \in 1..Len(chunk) : chunk[k] # " "

\* text[start:start + size]
Slice(text, start, size) ==
    SubSeq(text, start + 1,
           IF start + size < Len(text) THEN start + size ELSE Len(text))

\* the chunks of for i in range(start, len(text), step), step > 0
RECURSIVE ChunksFrom(_, _, _, _)
ChunksFrom(text, start, size, step) ==
    IF start >= Len(text) THEN <<>>
    ELSE (IF StripNonEmpty(Slice(text, start, size))
          THEN <<Slice(text, start, size)>> ELSE <<>>)
         \o ChunksFrom(text, start + step, size, step)

\* range() with a negative step from 0 up to len(text) is empty
Chunks(text, size, step) == IF step < 0 THEN <<>> ELSE ChunksFrom(text, 0, size, step)

ChunkMetadata(parse_result, k) ==
    {<<"source", parse_result.file_name>>, <<"chunk_index", k>>,
     <<"format", parse_result.format>>}

\* what chromadb and the embedding model can do in one add_documents
AddOutcomes == {"ok", "create_raises", "encode_raises", "add_raises"}

\* VectorStoreService.add_documents: the index afterwards, and the dict
\* returned or the exception re-raised
add_documents(st, collection_name, documents, metadatas, io) ==
    IF io = "create_raises" THEN [store |-> st, r |-> Raise(IndexError(io))]
    ELSE LET created == get_or_create_collection(st, collection_name)
             added == [k \in 1..Len(documents) |->
                          [document |-> documents[k], metadata |-> metadatas[k]]]
         IN IF io # "ok" THEN [store |-> created, r |-> Raise(IndexError(io))]
            ELSE [store |-> [created EXCEPT ![collection_name] = @ \o added],
                  r |-> Return([status |-> "success", collection |-> collection_name,
                                count |-> Len(documents),
                                ids |-> [k \in 1..Len(documents) |-> k]])]

RangeStepZero == <<"range() arg 3 must not be zero">>

\* chunk_and_index: the index afterwards and the dict returned; parse_document
\* is called directly, so the request id it reports is None
chunk_and_index(id, st, f, collection_name, chunk_size, chunk_overlap, io) ==
    LET parse_result == parse_document(None, f)
        step == chunk_size - chunk_overlap
    IN IF parse_result.status = "error"
       THEN [store |-> st, io |-> "", result |-> parse_result]
       ELSE IF step = 0
       THEN [store |-> st, io |-> "", result |-> InternalError(id, RangeStepZero)]
       ELSE LET chunks == Chunks(parse_result.text, chunk_size, step)
                metadatas == [k \in 1..Len(chunks) |-> ChunkMetadata(parse_result, k)]
                indexed == add_documents(st, collection_name, chunks, metadatas, io)
            IN [store |-> indexed.store, io |-> io,
                result |-> IF indexed.r.raised
                           THEN InternalError(id, indexed.r.exc)
                           ELSE [status |-> "success", task_id |-> id,
                                 file_name |-> parse_result.file_name,
                                 chunks_created |-> Len(chunks),
                                 indexed_to |-> collection_name,
                                 index_result |-> indexed.r.value]]

InitDocs ==
    /\ InitCommon /\ IdleSingle /\ IdleLong /\ IdleAgents
    /\ op \in {"parse_document", "chunk_and_index"}
    /\ file \in {Some(f) : f \in Files}
    /\ store \in {NoCollections, [c \in {"kb"} |-> <<EntryA>>]}
    /\ sdk_client = "" /\ IdleFlow
    /\ arg_collection_name = "" /\ arg_n_context_docs = 0
    /\ arg_system_prompt = None /\ index_outcome = "" /\ llm_calls = <<>>

ParseDocumentRun ==
    /\ op = "parse_document" /\ pc = "loop"
    /\ ret' = parse_document(request_id, file.val)
    /\ pc' = "done"
    /\ UNCHANGED <<singleVars, longVars, ragVars, workerVars>>
    /\ UNCHANGED <<op, request_id, agents, initial_task, pass_context, task,
                   synthesize, topic, rounds, i, round_num, results,
                   current_context, debate_history, calls>>

ChunkAndIndexRun ==
    /\ op = "chunk_and_index" /\ pc = "loop"
    /\ \E chunk_size \in 1..2, chunk_overlap \in 0..2, io \in AddOutcomes :
       LET done == chunk_and_index(request_id, store, file.val, "kb",
                                   chunk_size, chunk_overlap, io)
       IN /\ store' = done.store
          /\ index_outcome' = done.io
          /\ arg_collection_name' = "kb"
          /\ arg_chunk_size' = chunk_size
          /\ arg_chunk_overlap' = chunk_overlap
          /\ ret' = done.result
    /\ pc' = "done"
    /\ UNCHANGED <<arg_n_context_docs, arg_system_prompt, llm_calls>>
    /\ UNCHANGED <<singleVars, longVars, claudeVars, analysisVars, file, rag_result,
                   arg_file_paths, arg_analysis_type>>
    /\ UNCHANGED <<op, request_id, agents, initial_task, pass_context, task,
                   synthesize, topic, rounds, i, round_num, results,
                   current_context, debate_history, calls>>

-----------------------------------------------------------------------------
(* content_pipeline_workflow                                               *)

ProcessPreviewLen == 200

\* text[:n] + "..."
Preview(text, n) == SubSeq(text, 1, IF Len(text) < n THEN Len(text) ELSE n) \o <<"...">>

PipelineTopic == <<"tea">>
ContentType == <<"blog_post">>

ResearchTask ==
    <<"Research the topic '">> \o PipelineTopic
    \o <<"' and gather key information, facts, and insights needed for a ">>
    \o ContentType \o <<".">>
OutlineTask ==
    <<"Based on this research, create a detailed outline for a ", "medium", " ">>
    \o ContentType \o <<" about ">> \o PipelineTopic \o <<".">>
ReviewTask ==
    <<"Review this ">> \o ContentType
    \o <<" and suggest improvements for clarity, engagement, and accuracy.">>

WriterPrompt(outline, research) ==
    <<"Write a ">> \o ContentType \o <<" about ">> \o PipelineTopic
    \o <<".\n\nOutline:\n">> \o outline \o <<"\n\nResearch:\n">> \o research
    \o <<"\n\nRequirements:\n- Tone: ", "professional",
         "\n- Length: approximately ", "1000", " words\n- Format: ">>
    \o ContentType

FinalPrompt(draft, feedback) ==
    <<"Revise this ">> \o ContentType
    \o <<" based on the following review feedback.\n\nOriginal Draft:\n">>
    \o draft \o <<"\n\nReview Feedback:\n">> \o feedback
    \o <<"\n\nProduce the final, polished version.">>

PipelineSuccess(id, research, planner, draft, critic, final) ==
    [status |-> "success", task_id |-> id, workflow |-> "content_pipeline",
     topic |-> PipelineTopic, content_type |-> ContentType,
     final_content |-> final.text,
     process |-> [research |-> Preview(research.output, ProcessPreviewLen),
                  outline |-> Preview(planner.output, ProcessPreviewLen),
                  review_feedback |-> Preview(critic.output, ProcessPreviewLen)],
     total_usage |->
         [input_tokens |-> research.usage.input_tokens + planner.usage.input_tokens
                           + draft.usage.input_tokens + critic.usage.input_tokens
                           + final.usage.input_tokens,
          output_tokens |-> research.usage.output_tokens + planner.usage.output_tokens
                            + draft.usage.output_tokens + critic.usage.output_tokens
                            + final.usage.output_tokens]]

\* the except block of content_pipeline_workflow
PipelineExceptReraise(id, msg) == Escaped(msg)
PipelineExcept(id, msg) == InternalError(id, msg)

\* content_pipeline_workflow when the five provider calls behave as outs: the
\* run_single_agent invocations made, the direct generate calls made and the
\* dict returned
content_pipeline_workflow(id, outs) ==
    LET research == run_single_agent("researcher", ResearchTask, None, outs[1])
        c1 == <<Invocation("researcher", ResearchTask, None, outs[1])>>
    IN IF "output" \notin DOMAIN research
       THEN [calls |-> c1, llm_calls |-> <<>>,
             result |-> PipelineExcept(id, KeyErrorStr("output"))]
       ELSE
    LET ctx2 == Some(research.output)
        planner == run_single_agent("planner", OutlineTask, ctx2, outs[2])
        c2 == Append(c1, Invocation("planner", OutlineTask, ctx2, outs[2]))
    IN IF "output" \notin DOMAIN planner
       THEN [calls |-> c2, llm_calls |-> <<>>,
             result |-> PipelineExcept(id, KeyErrorStr("output"))]
       ELSE
    LET draft == generate(outs[3])
        g1 == <<[prompt |-> WriterPrompt(planner.output, research.output),
                 system |-> "You are an expert content writer specializing in blog_posts with a professional tone."]>>
    IN IF draft.raised
       THEN [calls |-> c2, llm_calls |-> g1, result |-> PipelineExcept(id, draft.exc)]
       ELSE
    LET ctx4 == Some(draft.value.text)
        critic == run_single_agent("critic", ReviewTask, ctx4, outs[4])
        c4 == Append(c2, Invocation("critic", ReviewTask, ctx4, outs[4]))
    IN IF "output" \notin DOMAIN critic
       THEN [calls |-> c4, llm_calls |-> g1,
             result |-> PipelineExcept(id, KeyErrorStr("output"))]
       ELSE
    LET final == generate(outs[5])
        g2 == Append(g1, [prompt |-> FinalPrompt(draft.value.text, critic.output),
                          system |-> "You are an expert editor perfecting blog_posts."])
    IN IF final.raised
       THEN [calls |-> c4, llm_calls |-> g2, result |-> PipelineExcept(id, final.exc)]
       ELSE [calls |-> c4, llm_calls |-> g2,
             result |-> PipelineSuccess(id, research, planner, draft.value, critic,
                                        final.value)]

InitPipeline ==
    /\ InitCommon /\ IdleSingle /\ IdleLong /\ IdleRag /\ IdleWorker /\ IdleAgents
    /\ op = "content_pipeline"

ContentPipelineRun ==
    /\ op = "content_pipeline" /\ pc = "loop"
    /\ \E outs \in [1..5 -> ProviderOutcomes] :
       LET run == content_pipeline_workflow(request_id, outs)
       IN /\ calls' = run.calls
          /\ llm_calls' = run.llm_calls
          /\ ret' = run.result
    /\ pc' = "done"
    /\ UNCHANGED <<store, arg_collection_name, arg_n_context_docs,
                   arg_system_prompt, index_outcome>>
    /\ UNCHANGED <<singleVars, longVars, workerVars>>
    /\ UNCHANGED <<op, request_id, agents, initial_task, pass_context, task,
                   synthesize, topic, rounds, i, round_num, results,
                   current_context, debate_history>>

-----------------------------------------------------------------------------
(* summarize_document, document_to_knowledge_base_workflow *)

DefaultChunkSize == 1000
DefaultChunkOverlap == 200

StylePrompts ==
    [concise |-> "Provide a concise 2-3 paragraph summary.",
     detailed |-> "Provide a detailed summary covering all major points.",
     bullets |-> "Provide a bullet-point summary of key points."]

SummaryCall(text, style) ==
    [prompt |-> <<Get(StylePrompts, style, StylePrompts.concise), "\n\nDocument:\n">>
                \o text,
     system |-> "You are an expert at summarizing documents clearly and accurately."]

\* summarize_document without max_length: the dict returned
summarize_document(id, text, style, outcome) ==
    LET response == generate(outcome)
    IN IF response.raised THEN InternalError(id, response.exc)
       ELSE [status |-> "success", task_id |-> id, summary |-> response.value.text,
             style |-> style, original_length |-> Len(text),
             summary_length |-> Len(response.value.text),
             usage |-> response.value.usage]

DocToKbError(id, step, nested) ==
    [status |-> "error", task_id |-> id, step |-> step, error |-> nested.error]

DocToKbSuccess(id, parse_result, index_result, collection_name, summary, generate_summary) ==
    [status |-> "success", task_id |-> id, workflow |-> "document_to_knowledge_base",
     file_name |-> parse_result.file_name,
     indexed_chunks |-> index_result.chunks_created,
     collection |-> collection_name, summary |-> summary,
     steps_completed |-> <<"parse", "chunk", "index">>
                         \o (IF generate_summary THEN <<"summarize">> ELSE <<>>)]

\* document_to_knowledge_base_workflow: the index afterwards, the generate
\* calls made and the dict returned; the nested tasks are called directly
document_to_knowledge_base_workflow(id, st, f, collection_name, generate_summary, io, outcome) ==
    LET parse_result == parse_document(None, f)
    IN IF parse_result.status = "error"
       THEN [store |-> st, io |-> "", llm_calls |-> <<>>,
             result |-> DocToKbError(id, "parse", parse_result)]
       ELSE
    LET indexed == chunk_and_index(None, st, f, collection_name,
                                   DefaultChunkSize, DefaultChunkOverlap, io)
    IN IF indexed.result.status = "error"
       THEN [store |-> indexed.store, io |-> indexed.io, llm_calls |-> <<>>,
             result |-> DocToKbError(id, "index", indexed.result)]
       ELSE IF ~generate_summary
       THEN [store |-> indexed.store, io |-> indexed.io, llm_calls |-> <<>>,
             result |-> DocToKbSuccess(id, parse_result, indexed.result,
                                       collection_name, None, FALSE)]
       ELSE
    LET summary_result == summarize_document(None, parse_result.text, "detailed",
                                             outcome)
    IN [store |-> indexed.store, io |-> indexed.io,
        llm_calls |-> <<SummaryCall(parse_result.text, "detailed")>>,
        result |-> IF "summary" \notin DOMAIN summary_result
                   THEN InternalError(id, KeyErrorStr("summary"))
                   ELSE DocToKbSuccess(id, parse_result, indexed.result,
                                       collection_name,
                                       Some(summary_result.summary), TRUE)]

InitDocToKb ==
    /\ InitCommon /\ IdleSingle /\ IdleLong /\ IdleAgents
    /\ op = "doc_to_kb"
    /\ file \in {Some(f) : f \in Files}
    /\ store \in {NoCollections, [c \in {"kb"} |-> <<EntryA>>]}
    /\ sdk_client = "" /\ IdleFlow
    /\ arg_collection_name = "" /\ arg_n_context_docs = 0
    /\ arg_system_prompt = None /\ index_outcome = "" /\ llm_calls = <<>>

DocToKbRun ==
    /\ op = "doc_to_kb" /\ pc = "loop"
    /\ \E generate_summary \in BOOLEAN, io \in AddOutcomes, o \in ProviderOutcomes :
       LET done == document_to_knowledge_base_workflow(
                       request_id, store, file.val, "kb", generate_summary, io, o)
       IN /\ store' = done.store
          /\ index_outcome' = done.io
          /\ arg_collection_name' = "kb"
          /\ llm_calls' = done.llm_calls
          /\ last_outcome' = IF done.llm_calls = <<>> THEN None ELSE Some(o)
          /\ ret' = done.result
    /\ pc' = "done"
    /\ UNCHANGED <<arg_n_context_docs, arg_system_prompt>>
    /\ UNCHANGED <<arg_role, arg_task_description, arg_context,
                   arg_custom_system_prompt>>
    /\ UNCHANGED <<longVars, workerVars>>
    /\ UNCHANGED <<op, request_id, agents, initial_task, pass_context, task,
                   synthesize, topic, rounds, i, round_num, results,
                   current_context, debate_history, calls>>

\* the document tasks and the workflow built on them
InitDocuments == InitDocs \/ InitDocToKb

NextDocuments == ParseDocumentRun \/ ChunkAndIndexRun \/ DocToKbRun

SpecDocuments == InitDocuments /\ [][NextDocuments]_vars

-----------------------------------------------------------------------------
(* research_and_report_workflow *)

ResearchTopic == <<"tea trade">>
ReportStyle == "comprehensive"
ResearchContextDocs == 5

\* the three agents of step 2
ResearchAgents ==
    <<[role |-> "researcher",
       task_description |-> <<"Analyze this information about ">> \o ResearchTopic
                            \o <<" and provide key insights.">>],
      [role |-> "analyst",
       task_description |-> <<"Identify patterns, relationships, and important conclusions.">>],
      [role |-> "critic",
       task_description |-> <<"Identify any gaps, limitations, or areas needing more investigation.">>]>>

\* the return for a failed search
ResearchSearchError(id, nested) ==
    [status |-> "error", task_id |-> id, step |-> "search", error |-> nested.error]

\* the return for a failed analysis chain
ResearchAnalysisErrorAsSearch(id, nested) ==
    [status |-> "error", task_id |-> id, step |-> "search", error |-> nested.error]
ResearchAnalysisError(id, nested) ==
    [status |-> "error", task_id |-> id, step |-> "analysis", error |-> nested.error]

ReportPrompt(context, analysis, sources) ==
    <<"Generate a ", ReportStyle,
      " research report on the following topic.\n\nTopic: ">> \o ResearchTopic
    \o <<"\n\nRAG Search Results:\n">> \o context
    \o <<"\n\nMulti-Agent Analysis:\n">>
    \o (IF analysis.final_output.some THEN analysis.final_output.val ELSE <<"None">>)
    \o <<"\n\nSources:\n", IntStr(Len(sources.documents)), " documents retrieved">>
    \o <<"\n\nInclude:\n1. Executive Summary\n2. Key Findings\n3. Detailed Analysis\n4. Conclusions\n5. Sources Referenced">>

ReportCall(context, analysis, sources) ==
    [prompt |-> ReportPrompt(context, analysis, sources),
     system |-> "You are a research analyst creating comprehensive reports."]

ResearchSuccess(id, report_response, sources, analysis) ==
    [status |-> "success", task_id |-> id, workflow |-> "research_and_report",
     topic |-> ResearchTopic, report |-> report_response.text,
     sources_used |-> Len(sources.documents),
     analysis_steps |-> Len(analysis.steps), usage |-> report_response.usage]

InitResearch ==
    /\ InitCommon /\ IdleSingle /\ IdleLong /\ IdleWorker
    /\ op = "research_report"
    /\ store \in Stores
    /\ arg_collection_name = "" /\ arg_n_context_docs = 0
    /\ arg_system_prompt = None /\ index_outcome = "" /\ llm_calls = <<>>
    /\ agents = <<>> /\ initial_task = <<>> /\ pass_context = FALSE
    /\ current_context = <<>> /\ task = <<>> /\ synthesize = FALSE
    /\ topic = <<>> /\ rounds = 0 /\ round_num = 0 /\ debate_history = <<>>

\* step 1: the nested query_with_context and the test of its status
ResearchSearch ==
    /\ op = "research_report" /\ pc = "loop"
    /\ \E collection_name \in CollectionNames, io \in IndexOutcomes,
          o \in ProviderOutcomes :
       LET q == query_with_context(None, store, collection_name, ResearchTopic,
                                   ResearchContextDocs, None, io, o)
       IN /\ arg_collection_name' = collection_name
          /\ arg_n_context_docs' = ResearchContextDocs
          /\ index_outcome' = io
          /\ store' = q.store
          /\ llm_calls' = q.calls
          /\ rag_result' = q.result
          /\ IF q.result.status = "error"
             THEN /\ ret' = ResearchSearchError(request_id, q.result)
                  /\ pc' = "done"
                  /\ UNCHANGED <<agents, initial_task, pass_context, current_context>>
             ELSE /\ agents' = ResearchAgents
                  /\ initial_task' = q.result.answer
                  /\ pass_context' = TRUE
                  /\ current_context' = q.result.answer
                  /\ pc' = "analysis"
                  /\ UNCHANGED ret
    /\ UNCHANGED <<arg_file_paths, arg_analysis_type, arg_chunk_size,
                   arg_chunk_overlap>>
    /\ UNCHANGED <<singleVars, longVars, claudeVars, analysisVars, file,
                   arg_system_prompt>>
    /\ UNCHANGED <<op, request_id, task, synthesize, topic, rounds, i,
                   round_num, results, debate_history, calls>>

\* step 2: one iteration of the nested run_multi_agent_sequential, and the
\* test of its status when it returns early
ResearchAnalysisStep ==
    /\ op = "research_report" /\ pc = "analysis" /\ i < Len(agents)
    /\ \E outcome \in ProviderOutcomes :
       LET agent_config == SeqAgentConfig(agents, i)
           role == agent_config.role
           td == Get(agent_config, "task_description", <<"Continue the work">>)
           ctx == SeqContextArg(pass_context, current_context)
           agent_result == run_single_agent(role, td, ctx, outcome)
       IN /\ calls' = Append(calls, Invocation(role, td, ctx, outcome))
          /\ IF agent_result.status = "error"
             THEN /\ ret' = ResearchAnalysisError(request_id,
                                SeqErrorResult(None, i, agent_result, results))
                  /\ pc' = "done"
                  /\ UNCHANGED <<i, results, current_context>>
             ELSE /\ results' = Append(results, SeqStepEntry(i, role, agent_result))
                  /\ current_context' =
                         SeqNextContext(pass_context, current_context,
                                        agent_result.output)
                  /\ i' = i + 1
                  /\ UNCHANGED <<pc, ret>>
    /\ UNCHANGED <<singleVars, longVars, ragVars, workerVars>>
    /\ UNCHANGED <<op, request_id, agents, initial_task, pass_context, task,
                   synthesize, topic, rounds, round_num, debate_history>>

\* step 3: the chain returned success; the report is generated and returned
ResearchReport ==
    /\ op = "research_report" /\ pc = "analysis" /\ i = Len(agents)
    /\ \E outcome \in ProviderOutcomes :
       LET analysis == SeqSuccessResult(None, results, Len(agents))
           sources == rag_result.sources
           report_response == generate(outcome)
       IN /\ llm_calls' = Append(llm_calls,
                                 ReportCall(rag_result.answer, analysis, sources))
          /\ ret' = IF report_response.raised
                    THEN InternalError(request_id, report_response.exc)
                    ELSE ResearchSuccess(request_id, report_response.value,
                                         sources, analysis)
    /\ pc' = "done"
    /\ UNCHANGED <<store, arg_collection_name, arg_n_context_docs,
                   arg_system_prompt, index_outcome>>
    /\ UNCHANGED <<singleVars, longVars, workerVars>>
    /\ UNCHANGED <<op, request_id, agents, initial_task, pass_context, task,
                   synthesize, topic, rounds, i, round_num, results,
                   current_context, debate_history, calls>>

NextResearch == ResearchSearch \/ ResearchAnalysisStep \/ ResearchReport

SpecResearch == InitResearch /\ [][NextResearch]_vars

-----------------------------------------------------------------------------
(* CodeAnalysisAgent, DataAnalysisAgent, analyze_code_task, analyze_data_task *)

MaxAnalyses == 2

\* the settings object the agents read: config.Settings declares neither
\* enable_multi_model nor openai_api_key; a settings object that declares them
\* holds a switch and a key, the key possibly empty
SettingsValues ==
    {NoSettings}
    \cup {[defined |-> TRUE, enable_multi_model |-> e, openai_api_key |-> k] :
             e \in BOOLEAN, k \in {"", "sk-test"}}

NoMultiModelAttribute ==
    <<"'Settings' object has no attribute 'enable_multi_model'">>

AnthropicModelName == "claude-3-5-sonnet-20241022"
OpenAIModelName(kind) == IF kind = "code" THEN "gpt-4o" ELSE "gpt-4o-mini"

\* CodeAnalysisAgent(use_openai) / DataAnalysisAgent(use_openai): the agent
\* constructed, or the exception of the constructor
AnalysisAgent(kind, use_openai, st) ==
    IF ~use_openai
    THEN Return([use_openai |-> FALSE, model |-> AnthropicModelName])
    ELSE IF ~st.defined THEN Raise(NoMultiModelAttribute)
    ELSE Return([use_openai |-> st.enable_multi_model,
                 model |-> IF st.enable_multi_model /\ st.openai_api_key # ""
                           THEN OpenAIModelName(kind) ELSE AnthropicModelName])

\* get_code_analyzer / get_data_analyzer: the singleton afterwards and the
\* agent returned or the exception raised
get_analyzer(kind, singleton, use_openai, st) ==
    IF singleton = None \/ singleton.val.use_openai # use_openai
    THEN LET made == AnalysisAgent(kind, use_openai, st)
         IN IF made.raised THEN [singleton |-> singleton, r |-> made]
            ELSE [singleton |-> Some(made.value), r |-> made]
    ELSE [singleton |-> singleton, r |-> Return(singleton.val)]

\* what agent.run does: a validated result, or an exception
AnalysisOutcomes ==
    {[raised |-> FALSE, data |-> [summary |-> <<"fine">>]],
     [raised |-> TRUE, message |-> <<"provider down">>],
     [raised |-> TRUE, message |-> <<"validation error">>]}

\* "model": "gpt-4o" if use_openai else "claude-3-5-sonnet"
ModelLabel(kind, use_openai) ==
    IF use_openai THEN OpenAIModelName(kind) ELSE "claude-3-5-sonnet"

\* analyze_code_task (kind "code") and analyze_data_task (kind "data"): the
\* singleton afterwards, the model that ran and the dict returned
analyze_task(id, kind, singleton, use_openai, st, o) ==
    LET got == get_analyzer(kind, singleton, use_openai, st)
    IN IF got.r.raised
       THEN [singleton |-> got.singleton, ran |-> None,
             result |-> InternalError(id, got.r.exc)]
       ELSE [singleton |-> got.singleton, ran |-> Some(got.r.value.model),
             result |-> IF o.raised THEN InternalError(id, o.message)
                        ELSE [status |-> "success", task_id |-> id,
                              model |-> ModelLabel(kind, use_openai),
                              result |-> model_dump(o.data)]]

InitAnalysis ==
    /\ InitCommon /\ IdleSingle /\ IdleLong /\ IdleRag /\ IdleAgents
    /\ op \in {"analyze_code", "analyze_data"}
    /\ IdleClaude /\ file = None /\ rag_result = NoReturn
    /\ arg_file_paths = <<>> /\ arg_analysis_type = ""
    /\ arg_chunk_size = 0 /\ arg_chunk_overlap = 0
    /\ settings \in SettingsValues
    /\ code_analyzer = None /\ data_analyzer = None
    /\ arg_use_openai = FALSE /\ ran_model = None

\* one invocation of analyze_code_task
AnalyzeCodeRun ==
    /\ op = "analyze_code" /\ i < MaxAnalyses
    /\ \E use_openai \in BOOLEAN, o \in AnalysisOutcomes :
       LET run == analyze_task(request_id, "code", code_analyzer, use_openai,
                               settings, o)
       IN /\ code_analyzer' = run.singleton
          /\ ran_model' = run.ran
          /\ ret' = run.result
          /\ arg_use_openai' = use_openai
    /\ i' = i + 1
    /\ pc' = "done"
    /\ UNCHANGED <<settings, data_analyzer, claudeVars, flowVars>>
    /\ UNCHANGED <<singleVars, longVars, ragVars>>
    /\ UNCHANGED <<op, request_id, agents, initial_task, pass_context, task,
                   synthesize, topic, rounds, round_num, results,
                   current_context, debate_history, calls>>

\* one invocation of analyze_data_task
AnalyzeDataRun ==
    /\ op = "analyze_data" /\ i < MaxAnalyses
    /\ \E use_openai \in BOOLEAN, o \in AnalysisOutcomes :
       LET run == analyze_task(request_id, "data", data_analyzer, use_openai,
                               settings, o)
       IN /\ data_analyzer' = run.singleton
          /\ ran_model' = run.ran
          /\ ret' = run.result
          /\ arg_use_openai' = use_openai
    /\ i' = i + 1
    /\ pc' = "done"
    /\ UNCHANGED <<settings, code_analyzer, claudeVars, flowVars>>
    /\ UNCHANGED <<singleVars, longVars, ragVars>>
    /\ UNCHANGED <<op, request_id, agents, initial_task, pass_context, task,
                   synthesize, topic, rounds, round_num, results,
                   current_context, debate_history, calls>>

NextAnalysis == AnalyzeCodeRun \/ AnalyzeDataRun

SpecAnalysis == InitAnalysis /\ [][NextAnalysis]_vars

-----------------------------------------------------------------------------
(* LLMClient.analyze_sentiment, batch_document_analysis_workflow *)

MaxDocuments == 2

\* a response text json.loads accepts, and what it parses to
JsonText == <<"{\"sentiment\": \"neutral\"}">>
IsJson(text) == text = JsonText
Loads(text) == [sentiment |-> "neutral"]

SentimentOutcomes ==
    ProviderOutcomes \cup {[raised |-> FALSE, text |-> JsonText, usage |-> Usage]}

SentimentCall(text) ==
    [prompt |-> <<"Analyze the sentiment of the following text", "Text: ">> \o text,
     system |-> "You are a sentiment analysis expert. Respond only with valid JSON."]

\* LLMClient.analyze_sentiment: the dict returned or the exception of generate
analyze_sentiment(text, outcome) ==
    LET response == generate(outcome)
    IN IF response.raised THEN response
       ELSE IF IsJson(response.value.text)
       THEN Return([status |-> "success", analysis |-> Loads(response.value.text)])
       ELSE Return([status |-> "error", message |-> "Invalid JSON response"])

AnalysisTypes == {"summary", "sentiment", "entities"}

UnknownAnalysisType(analysis_type) ==
    [status |-> "error", error |-> <<"Unknown analysis type: ", analysis_type>>]

\* the analysis of one parsed document
BatchAnalysis(parse_result, analysis_type, outcome) ==
    CASE analysis_type = "summary" ->
             Return(summarize_document(None, parse_result.text, "concise", outcome))
      [] analysis_type = "sentiment" ->
             analyze_sentiment(Slice(parse_result.text, 0, 2000), outcome)
      [] OTHER -> Return(UnknownAnalysisType(analysis_type))

BatchCalls(parse_result, analysis_type) ==
    CASE analysis_type = "summary" -> <<SummaryCall(parse_result.text, "concise")>>
      [] analysis_type = "sentiment" ->
             <<SentimentCall(Slice(parse_result.text, 0, 2000))>>
      [] OTHER -> <<>>

BatchParseError(parse_result) ==
    [file |-> FileName, status |-> "error", error |-> parse_result.error]

BatchEntry(parse_result, analysis) ==
    [file |-> parse_result.file_name, status |-> "success", analysis |-> analysis]

\* len([r for r in results if r["status"] == status])
CountStatus(rs, status) == Cardinality({k \in 1..Len(rs) : rs[k].status = status})

BatchSuccess(id, analysis_type, file_paths, rs) ==
    [status |-> "success", task_id |-> id, workflow |-> "batch_document_analysis",
     analysis_type |-> analysis_type, total_documents |-> Len(file_paths),
     successful |-> CountStatus(rs, "success"), failed |-> CountStatus(rs, "error"),
     results |-> rs]

BatchFiles ==
    {f \in Files : f.state \in {"missing", "unreadable"}
                   \/ (f.state = "readable" /\ f.text \in {<<>>, <<"a", "b", "c">>})}

InitBatch ==
    /\ InitCommon /\ IdleSingle /\ IdleLong /\ IdleAgents /\ IdleClaude
    /\ op = "batch_analysis"
    /\ \E n \in 0..MaxDocuments : arg_file_paths \in [1..n -> BatchFiles]
    /\ arg_analysis_type \in AnalysisTypes
    /\ file = None /\ rag_result = NoReturn
    /\ arg_chunk_size = 0 /\ arg_chunk_overlap = 0
    /\ settings = NoSettings /\ code_analyzer = None /\ data_analyzer = None
    /\ arg_use_openai = FALSE /\ ran_model = None
    /\ store = NoCollections
    /\ arg_collection_name = "" /\ arg_n_context_docs = 0
    /\ arg_system_prompt = None /\ index_outcome = "" /\ llm_calls = <<>>

\* one pass of the for loop
BatchDocument ==
    /\ op = "batch_analysis" /\ pc = "loop" /\ i < Len(arg_file_paths)
    /\ LET parse_result == parse_document(None, arg_file_paths[i + 1])
       IN IF parse_result.status = "error"
          THEN /\ results' = Append(results, BatchParseError(parse_result))
               /\ i' = i + 1
               /\ UNCHANGED <<pc, ret, llm_calls, last_outcome>>
          ELSE \E o \in SentimentOutcomes :
               LET analysis == BatchAnalysis(parse_result, arg_analysis_type, o)
                   made == BatchCalls(parse_result, arg_analysis_type)
               IN /\ llm_calls' = llm_calls \o made
                  /\ last_outcome' = IF made = <<>> THEN last_outcome ELSE Some(o)
                  /\ IF analysis.raised
                     THEN /\ ret' = InternalError(request_id, analysis.exc)
                          /\ pc' = "done"
                          /\ UNCHANGED <<results, i>>
                     ELSE /\ results' = Append(results,
                                               BatchEntry(parse_result, analysis.value))
                          /\ i' = i + 1
                          /\ UNCHANGED <<pc, ret>>
    /\ UNCHANGED <<arg_role, arg_task_description, arg_context,
                   arg_custom_system_prompt>>
    /\ UNCHANGED <<store, arg_collection_name, arg_n_context_docs, arg_system_prompt,
                   index_outcome>>
    /\ UNCHANGED <<longVars, workerVars>>
    /\ UNCHANGED <<op, request_id, agents, initial_task, pass_context, task,
                   synthesize, topic, rounds, round_num,
                   current_context, debate_history, calls>>

\* the counts and the return after the loop
BatchReturn ==
    /\ op = "batch_analysis" /\ pc = "loop" /\ i = Len(arg_file_paths)
    /\ ret' = BatchSuccess(request_id, arg_analysis_type, arg_file_paths, results)
    /\ pc' = "done"
    /\ UNCHANGED <<singleVars, longVars, ragVars, workerVars>>
    /\ UNCHANGED <<op, request_id, agents, initial_task, pass_context, task,
                   synthesize, topic, rounds, i, round_num, results,
                   current_context, debate_history, calls>>

NextBatch == BatchDocument \/ BatchReturn

SpecBatch == InitBatch /\ [][NextBatch]_vars

-----------------------------------------------------------------------------
(* The worker: every task function of the model *)

InitWorker ==
    \/ InitSeq \/ InitPar \/ InitDebate \/ InitSingle \/ InitLong \/ InitRag
    \/ InitDebug \/ InitClaude \/ InitDocs \/ InitPipeline
    \/ InitResearch \/ InitDocToKb \/ InitAnalysis \/ InitBatch

NextWorker ==
    \/ NextSeq \/ NextPar \/ NextDebate \/ NextSingle \/ NextLong \/ NextRag
    \/ DebugTaskRun \/ NextClaude
    \/ ParseDocumentRun \/ ChunkAndIndexRun \/ ContentPipelineRun
    \/ NextResearch \/ DocToKbRun \/ NextAnalysis \/ NextBatch

SpecWorker == InitWorker /\ [][NextWorker]_vars

-----------------------------------------------------------------------------
(* Properties *)

Failed(c) == c.result.status = "error"
Succeeded(c) == c.result.status = "success"

\* the index of the first invocation that returned an error
FirstFailure(cs) == CHOOSE k \in 1..Len(cs) : Failed(cs[k]) /\ \A j \in 1..(k - 1) : ~Failed(cs[j])
AnyFailure(cs) == \E k \in 1..Len(cs) : Failed(cs[k])

AllHaveRole(as) == \A k \in 1..Len(as) : "role" \in DOMAIN as[k]

\* C1: when step i is the first step of run_multi_agent_sequential whose agent
\* invocation returns an error, the result is status=error with
\* failed_at_step = i and completed_steps holding exactly the entries
\* {step, role, output} of steps 1..i-1 in input order.
C1_SequentialFailureReport ==
    (op = "sequential" /\ pc = "done" /\ AnyFailure(calls)) =>
        LET k == FirstFailure(calls) IN
        /\ ret.status = "error"
        /\ "failed_at_step" \in DOMAIN ret /\ ret.failed_at_step = k
        /\ ret.error = calls[k].result.error
        /\ "completed_steps" \in DOMAIN ret
        /\ ret.completed_steps =
               [j \in 1..(k - 1) |->
                   [step |-> j, role |-> agents[j].role,
                    output |-> calls[j].result.output]]

C1_Witness ==
    /\ op = "sequential" /\ pc = "done"
    /\ Len(calls) = 3 /\ Failed(calls[3])
    /\ ret.status = "error" /\ Len(ret.completed_steps) = 2

\* C4: run_multi_agent_sequential invokes its agents one at a time in input
\* order: invocation k is the one of step k, every invocation before the
\* latest one returned success, so nothing is invoked after an error, and a
\* failure reported at step i means exactly i invocations were made.
C4_SequentialOrder ==
    op = "sequential" =>
        /\ Len(calls) <= Len(agents)
        /\ Len(calls) \in {i, i + 1}
        /\ \A k \in 1..Len(calls) :
              /\ "role" \in DOMAIN agents[k]
              /\ calls[k].role = agents[k].role
              /\ calls[k].task_description =
                     Get(agents[k], "task_description", <<"Continue the work">>)
              /\ (k < Len(calls) => Succeeded(calls[k]))
        /\ (pc = "done" /\ "failed_at_step" \in DOMAIN ret
                => Len(calls) = ret.failed_at_step /\ Failed(calls[Len(calls)]))
        /\ (pc = "done" /\ AnyFailure(calls) => Failed(calls[Len(calls)]))

C4_Witness ==
    /\ op = "sequential" /\ pc = "done"
    /\ Len(agents) = 3 /\ Len(calls) = 2
    /\ Succeeded(calls[1]) /\ Failed(calls[2])
    /\ agents[1].role # agents[2].role

\* C5: with pass_context the context given to step 1 is initial_task and the
\* context given to step k > 1 is exactly the output of step k-1; without
\* pass_context every step is invoked with no context.
C5_SequentialContext ==
    op = "sequential" =>
        \A k \in 1..Len(calls) :
            calls[k].context =
                IF pass_context
                THEN Some(IF k = 1 THEN initial_task ELSE calls[k - 1].result.output)
                ELSE None

C5_Witness ==
    /\ op = "sequential" /\ pass_context /\ Len(calls) = 3
    /\ calls[1].result.output # calls[2].result.output
    /\ calls[1].result.output # initial_task
    /\ calls[3].context = Some(calls[2].result.output)

\* the invocations of the agents of run_multi_agent_parallel (the synthesizer's,
\* if any, comes after them)
ParAgentCalls == SubSeq(calls, 1, IF Len(calls) < Len(agents) THEN Len(calls) ELSE Len(agents))
ParSynthCalls == SubSeq(calls, Len(agents) + 1, Len(calls))

\* C2: when some or all agent invocations of run_multi_agent_parallel return
\* an error, the result is still status=success and every failed agent is in
\* agent_outputs at its input position with status=error.
C2_ParallelPartialFailure ==
    (op = "parallel" /\ pc = "done" /\ AllHaveRole(agents)
        /\ AnyFailure(ParAgentCalls)) =>
        /\ ret.status = "success"
        /\ "agent_outputs" \in DOMAIN ret
        /\ Len(ret.agent_outputs) = Len(agents)
        /\ \A k \in 1..Len(ParAgentCalls) :
              Failed(calls[k]) =>
                  /\ ret.agent_outputs[k].role = agents[k].role
                  /\ ret.agent_outputs[k].status = "error"

\* C6: every run of run_multi_agent_parallel over k agents of which m fail
\* returns agent_outputs of length k, entry j belonging to input agent j, and a
\* successful count of k - m.
C6_ParallelOutputs ==
    (op = "parallel" /\ pc = "done" /\ AllHaveRole(agents)) =>
        /\ "agent_outputs" \in DOMAIN ret
        /\ Len(ret.agent_outputs) = Len(agents)
        /\ \A k \in 1..Len(agents) : ret.agent_outputs[k].role = agents[k].role
        /\ ret.successful_agents =
               Len(agents) - Len(SelectSeq(ParAgentCalls, Failed))

\* C7: the synthesizer of run_multi_agent_parallel is invoked exactly once and
\* final_synthesis is present when synthesize is set and at least one agent
\* succeeded; otherwise it is never invoked and final_synthesis is absent.
\* (Stated for the runs in which the synthesizer itself, if invoked, succeeds.)
C7_ParallelSynthesis ==
    (op = "parallel" /\ pc = "done" /\ AllHaveRole(agents)
        /\ ~AnyFailure(ParSynthCalls)) =>
        IF synthesize /\ \E k \in 1..Len(ParAgentCalls) : Succeeded(calls[k])
        THEN /\ Len(ParSynthCalls) = 1
             /\ "final_synthesis" \in DOMAIN ret
             /\ ret.final_synthesis # None
        ELSE /\ Len(ParSynthCalls) = 0
             /\ ("final_synthesis" \in DOMAIN ret => ret.final_synthesis = None)

\* the sections the synthesis context must hold: one per agent invocation
\* that succeeded, in input order, joined by blank lines
RECURSIVE ExpectedSections(_, _)
ExpectedSections(k, first) ==
    IF k > Len(ParAgentCalls) THEN <<>>
    ELSE IF Failed(calls[k]) THEN ExpectedSections(k + 1, first)
    ELSE (IF first THEN <<>> ELSE <<"\n\n">>)
         \o <<Upper(agents[k].role), " PERSPECTIVE:\n">> \o calls[k].result.output
         \o ExpectedSections(k + 1, FALSE)

\* C8: the synthesis context run_multi_agent_parallel gives the synthesizer
\* holds exactly one section per successful agent (upper-cased role, then its
\* output), in input order, separated by blank lines, and nothing else.
C8_SynthesisContext ==
    (op = "parallel" /\ Len(ParSynthCalls) > 0) =>
        /\ Len(ParSynthCalls) = 1
        /\ ParSynthCalls[1].role = "synthesizer"
        /\ ParSynthCalls[1].context = Some(ExpectedSections(1, TRUE))

C8_Witness ==
    /\ op = "parallel" /\ pc = "done" /\ Len(ParSynthCalls) = 1
    /\ Len(agents) = 3
    /\ agents[1].role = "researcher" /\ agents[2].role = "Critic"
    /\ calls[1].result.output # calls[2].result.output

\* the turns of run_agent_debate, round-major then roster order, and the
\* invocations made for them (the synthesizer's, if any, comes after them)
DebateTurnCount == rounds * Len(agents)
DebateTurnCalls ==
    SubSeq(calls, 1, IF Len(calls) < DebateTurnCount THEN Len(calls) ELSE DebateTurnCount)
DebateSynthCalls == SubSeq(calls, DebateTurnCount + 1, Len(calls))
TurnRound(k) == ((k - 1) \div Len(agents)) + 1
TurnRole(k) == agents[((k - 1) % Len(agents)) + 1]

\* C3: a failed turn does not abort run_agent_debate: its entry is in the
\* transcript with the error message as argument, all remaining turns are
\* run, and the result is not status=error on account of that turn.
\* (Stated for the runs in which the synthesizer itself did not fail.)
C3_DebateSurvivesFailedTurn ==
    (op = "debate" /\ pc = "done" /\ AnyFailure(DebateTurnCalls)
        /\ ~AnyFailure(DebateSynthCalls)) =>
        /\ ret.status # "error"
        /\ Len(DebateTurnCalls) = DebateTurnCount
        /\ "debate_transcript" \in DOMAIN ret
        /\ Len(ret.debate_transcript) = DebateTurnCount
        /\ \A k \in 1..DebateTurnCount :
              Failed(calls[k]) =>
                  ret.debate_transcript[k].argument = calls[k].result.error

\* C9: the transcript run_agent_debate returns has exactly rounds x |roster|
\* entries, ordered by (round, roster index) ascending, rounds numbered from
\* 1; while the debate runs the history is a prefix of that order.
C9_TranscriptOrder ==
    (op = "debate" /\ rounds >= 1) =>
        /\ \A k \in 1..Len(debate_history) :
              /\ k <= DebateTurnCount
              /\ debate_history[k].round = TurnRound(k)
              /\ debate_history[k].role = TurnRole(k)
        /\ (pc = "done" /\ "debate_transcript" \in DOMAIN ret =>
              /\ ret.debate_transcript = debate_history
              /\ Len(ret.debate_transcript) = DebateTurnCount)

C9_Witness ==
    /\ op = "debate" /\ pc = "done" /\ ret.status = "success"
    /\ rounds = 2 /\ Len(agents) = 2 /\ agents[1] # agents[2]
    /\ Len(ret.debate_transcript) = 4
    /\ ret.debate_transcript[3].round = 2

\* whether text part occurs in text whole as a contiguous run of tokens
Contains(whole, part) ==
    \E s \in 0..(Len(whole) - Len(part)) : SubSeq(whole, s + 1, s + Len(part)) = part

\* the transcript entries as the prompt of a later invocation must show them
RECURSIVE ExpectedTranscript(_, _)
ExpectedTranscript(k, n) ==
    IF k > n THEN <<>>
    ELSE (IF k = 1 THEN <<>> ELSE <<"\n\n">>)
         \o <<"Round ", IntStr(TurnRound(k)), ", ", TurnRole(k), ": ">>
         \o calls[k].result.output
         \o ExpectedTranscript(k + 1, n)

\* C10: each turn of run_agent_debate is invoked after all earlier turns
\* completed, with a prompt that contains every earlier transcript entry in
\* order (none for the first turn); when the debate has returned, the
\* synthesizer was invoked exactly once, after the last turn, with the full
\* transcript as context, and its output is the conclusion.
\* (Stated for the runs in which the synthesizer itself did not fail.)
C10_DebateTurnsAndConclusion ==
    (op = "debate" /\ ~AnyFailure(DebateSynthCalls)) =>
        /\ \A k \in 1..Len(DebateTurnCalls) :
              /\ calls[k].role = TurnRole(k)
              /\ (k = 1 => ~Contains(calls[k].prompt, <<"\n\nPrevious arguments:\n">>))
              /\ (k > 1 => Contains(calls[k].prompt,
                                    <<"\n\nPrevious arguments:\n">>
                                    \o ExpectedTranscript(1, k - 1)))
        /\ (pc = "done" =>
              /\ Len(DebateTurnCalls) = DebateTurnCount
              /\ Len(DebateSynthCalls) = 1
              /\ DebateSynthCalls[1].role = "synthesizer"
              /\ DebateSynthCalls[1].context =
                     Some(ExpectedTranscript(1, DebateTurnCount))
              /\ "conclusion" \in DOMAIN ret
              /\ ret.conclusion = DebateSynthCalls[1].result.output)

\* C11: run_single_agent never raises: whatever the provider does, it returns
\* a dict whose status is success or error, and a provider exception yields
\* status=error carrying the exception's message.
C11_SingleAgentNeverRaises ==
    (op = "single" /\ pc = "done") =>
        /\ "status" \in DOMAIN ret
        /\ ret.status \in {"success", "error"}
        /\ (last_outcome.val.raised =>
               /\ ret.status = "error"
               /\ ret.error = last_outcome.val.message)
        /\ (~last_outcome.val.raised => ret.status = "success")

C11_Witness ==
    /\ op = "single" /\ pc = "done"
    /\ last_outcome.val.raised /\ last_outcome.val.message = <<"provider down">>
    /\ ret.status = "error"

\* C12 as stated: a success result carries a non-empty output and usage, an
\* error result carries a non-empty error and no output field.
C12_NonEmptyFields ==
    (op = "single" /\ pc = "done" /\ "status" \in DOMAIN ret) =>
        /\ (ret.status = "success" =>
               /\ "output" \in DOMAIN ret /\ ret.output # <<>>
               /\ "usage" \in DOMAIN ret)
        /\ (ret.status = "error" =>
               /\ "error" \in DOMAIN ret /\ ret.error # <<>>
               /\ "output" \notin DOMAIN ret)

\* C12 amended: a success result carries the fields output (the provider's
\* text, possibly empty) and usage and no error field; an error result
\* carries the field error (the exception's message, possibly empty) and
\* neither output nor usage.
C12_ResultFields ==
    (op = "single" /\ pc = "done" /\ "status" \in DOMAIN ret) =>
        /\ (ret.status = "success" =>
               /\ DOMAIN ret = {"status", "task_id", "role", "output", "usage"}
               /\ ret.output = last_outcome.val.text
               /\ ret.usage = last_outcome.val.usage)
        /\ (ret.status = "error" =>
               /\ DOMAIN ret = {"status", "task_id", "role", "error"}
               /\ ret.error = last_outcome.val.message)

C12_Witness ==
    /\ op = "single" /\ pc = "done"
    /\ ret.status = "success" /\ ret.output = <<>>

\* the latest invocation of run_long_task returned a snapshot
SnapshotReturned ==
    /\ op = "long_task" /\ invocations > 0
    /\ "status" \in DOMAIN ret /\ ret.status = "success"

\* the latest invocation resumed, under the same request id, the call before it
ResumedSameTask == resumed_from = Some(request_id)

\* C13: steps_completed <= total_steps in every snapshot the engine returns.
C13_StepsWithinTotal ==
    SnapshotReturned => ret.result.steps_completed <= ret.result.total_steps

\* C14: every snapshot returned in a status=success envelope has
\* progress_percentage in [0,100], steps_completed >= 0, total_steps >= 1 and a
\* status of the enumeration; a generated payload outside these bounds is
\* answered with an error envelope.
C14_SnapshotBounds ==
    /\ SnapshotReturned =>
          /\ ret.result.progress_percentage >= 0
          /\ ret.result.progress_percentage <= 100
          /\ ret.result.steps_completed >= 0
          /\ ret.result.total_steps >= 1
          /\ ret.result.status \in {"pending", "in_progress", "completed", "failed"}
    /\ (op = "long_task" /\ invocations > 0 /\ ~last_outcome.val.raised) =>
          LET p == last_outcome.val.data IN
          (\/ p.progress_percentage < 0 \/ p.progress_percentage > 100
           \/ p.steps_completed < 0 \/ p.total_steps < 1
           \/ p.status \notin {Some("pending"), Some("in_progress"),
                               Some("completed"), Some("failed")})
              => ret.status = "error" /\ "result" \notin DOMAIN ret

C14_Witness ==
    /\ op = "long_task" /\ invocations > 0 /\ ~last_outcome.val.raised
    /\ last_outcome.val.data.progress_percentage = 101
    /\ ret.status = "error"

\* C15: an invocation given the previous call's checkpoint_data for the same
\* task returns a snapshot whose started_at is that of the first call.
C15_StartedAtFixed ==
    (SnapshotReturned /\ ResumedSameTask /\ first_started_at # None) =>
        ret.result.started_at = first_started_at.val

\* C16: across successive invocations for the same task_id the
\* progress_percentage of the snapshots does not decrease, unless the new
\* snapshot's status is failed.
C16_ProgressMonotone ==
    [][(SnapshotReturned /\ SnapshotReturned' /\ request_id' = request_id
        /\ invocations' = invocations + 1 /\ ret'.result.status # "failed")
       => ret'.result.progress_percentage >= ret.result.progress_percentage]_vars

\* C17: result and error_message are never both present; result is present
\* only with status=completed, error_message only with status=failed.
C17_ResultErrorExclusive ==
    SnapshotReturned =>
        /\ ~(ret.result.result # None /\ ret.result.error_message # None)
        /\ (ret.result.result # None => ret.result.status = "completed")
        /\ (ret.result.error_message # None => ret.result.status = "failed")

\* C18 as stated: when the provider call fails the caller receives a snapshot
\* with status=failed and error_message populated, and no second provider
\* call is made for the invocation.
C18_ProviderFailureAsFailedSnapshot ==
    (op = "long_task" /\ invocations > 0 /\ last_outcome.val.raised) =>
        /\ "result" \in DOMAIN ret
        /\ ret.result.status = "failed"
        /\ ret.result.error_message # None
        /\ provider_calls = invocations

\* C18 amended: when the provider call fails the caller receives an envelope
\* with status=error carrying the exception's message and no snapshot, and no
\* second provider call is made for the invocation.
C18_ProviderFailureAsErrorEnvelope ==
    (op = "long_task" /\ invocations > 0 /\ last_outcome.val.raised) =>
        /\ ret = [status |-> "error", task_id |-> request_id,
                  error |-> last_outcome.val.message]
        /\ provider_calls = invocations

C18_Witness ==
    /\ op = "long_task" /\ invocations = 2 /\ last_outcome.val.raised
    /\ ret.status = "error" /\ provider_calls = 2

\* C19: across successive invocations for the same task the status never
\* moves from in_progress back to pending and never leaves completed or
\* failed.
C19_StatusStateMachine ==
    [][(SnapshotReturned /\ SnapshotReturned' /\ request_id' = request_id
        /\ invocations' = invocations + 1)
       => /\ ~(ret.result.status = "in_progress" /\ ret'.result.status = "pending")
          /\ (ret.result.status \in {"completed", "failed"}
                 => ret'.result.status = ret.result.status)]_vars

\* C20: the snapshot an invocation returns carries the task_id the invocation
\* was given, and an invocation given the previous call's checkpoint_data runs
\* under the task_id of the call it resumes.
C20_TaskIdStable ==
    /\ SnapshotReturned =>
          ret.task_id = request_id /\ ret.result.task_id = request_id
    /\ (op = "long_task" /\ resumed_from # None) => resumed_from = Some(request_id)

\* the latest invocation of query_with_context has returned
RagReturned == op = "rag" /\ i > 0 /\ "status" \in DOMAIN ret

C22_GenerationFailureKeepsSources ==
    (RagReturned /\ index_outcome = "ok" /\ last_outcome # None
     /\ last_outcome.val.raised) =>
        /\ ret.status = "error"
        /\ "sources" \in DOMAIN ret

\* C22 amended: if generation fails after a successful retrieval the result is
\* status=error with task_id and the exception's message only; the retrieved
\* sources are not part of it.
C22_GenerationFailureDropsSources ==
    (RagReturned /\ index_outcome = "ok" /\ last_outcome # None
     /\ last_outcome.val.raised) =>
        /\ ret = InternalError(request_id, last_outcome.val.message)
        /\ Len(llm_calls) = 1

C22_Witness ==
    /\ RagReturned /\ index_outcome = "ok" /\ last_outcome # None
    /\ last_outcome.val.raised
    /\ store[arg_collection_name] # <<>>
    /\ ret.status = "error"

\* C23: if retrieval returns zero documents, query_with_context still makes
\* exactly one generation call, and unless the caller supplied a system_prompt
\* that call carries the default grounding instruction.
C23_ZeroDocumentsStillGenerates ==
    (RagReturned /\ index_outcome = "ok" /\ store[arg_collection_name] = <<>>) =>
        /\ Len(llm_calls) = 1
        /\ llm_calls[1].prompt = EnhancedPrompt(RagQuery, <<>>)
        /\ (arg_system_prompt = None
               => llm_calls[1].system = GroundingInstruction)
        /\ (arg_system_prompt \notin {None, Some("")}
               => llm_calls[1].system = arg_system_prompt.val)
        /\ (ret.status = "success" => ret.sources.documents = <<>>)

C23_Witness ==
    /\ RagReturned /\ index_outcome = "ok" /\ store[arg_collection_name] = <<>>
    /\ arg_system_prompt = None /\ Len(llm_calls) = 1
    /\ llm_calls[1].system = GroundingInstruction

\* C26: when every step succeeds run_multi_agent_sequential returns
\* status=success with one steps entry per input step, in input order, and
\* final_output equal to the last step's output; with zero steps it returns
\* status=success with empty steps and final_output none.
C26_SequentialFullSuccess ==
    (op = "sequential" /\ pc = "done" /\ Len(calls) = Len(agents)
     /\ \A k \in 1..Len(calls) : Succeeded(calls[k])) =>
        /\ ret.status = "success"
        /\ ret.task_id = request_id
        /\ Len(ret.steps) = Len(agents)
        /\ \A k \in 1..Len(agents) :
              ret.steps[k] = [step |-> k, role |-> agents[k].role,
                              output |-> calls[k].result.output]
        /\ ret.final_output = IF agents = <<>> THEN None
                              ELSE Some(calls[Len(calls)].result.output)

C26_Witness ==
    /\ op = "sequential" /\ pc = "done" /\ Len(agents) = 2 /\ Len(calls) = 2
    /\ \A k \in 1..2 : Succeeded(calls[k])
    /\ calls[1].result.output # calls[2].result.output
    /\ ret.status = "success"

\* C27: run_single_agent resolves the role by lower-casing it and looking it
\* up in the table {researcher, analyst, planner, critic, synthesizer}; a role
\* that is not in the table resolves to the generic assistant prompt and does
\* not by itself produce an error result.
C27_RoleResolution ==
    (op = "single" /\ pc = "done" /\ arg_custom_system_prompt \in {None, Some("")}) =>
        /\ calls[1].system =
              CASE arg_role = "researcher" -> "You are a research specialist."
                [] arg_role = "analyst" -> "You are a data analyst."
                [] arg_role = "Planner" -> "You are a strategic planner."
                [] arg_role \in {"critic", "Critic"} -> "You are a critical reviewer."
                [] arg_role = "synthesizer" -> "You are a synthesis expert."
                [] OTHER -> "You are a helpful AI assistant."
        /\ (~last_outcome.val.raised => ret.status = "success" /\ ret.role = arg_role)

C27_Witness ==
    /\ op = "single" /\ pc = "done" /\ arg_role = "guest"
    /\ arg_custom_system_prompt = None
    /\ calls[1].system = "You are a helpful AI assistant."
    /\ ret.status = "success"

\* C28 as stated: for every context value supplied to run_single_agent the
\* prompt sent to the provider is that context ahead of the task in the
\* Context/Task layout; the prompt is the task description alone only when
\* no context is supplied.
C28_ContextAlwaysPrepended ==
    (op = "single" /\ pc = "done") =>
        /\ (arg_context # None =>
               calls[1].prompt = <<"Context:\n">> \o arg_context.val
                                 \o <<"\n\nTask:\n">> \o arg_task_description)
        /\ (calls[1].prompt = arg_task_description => arg_context = None)

\* C28 amended: for every non-empty context supplied the prompt is that
\* context ahead of the task in the Context/Task layout; when no context or
\* an empty context is supplied the prompt is the task description alone.
C28_NonEmptyContextPrepended ==
    (op = "single" /\ pc = "done") =>
        /\ (arg_context \notin {None, Some(<<>>)} =>
               calls[1].prompt = <<"Context:\n">> \o arg_context.val
                                 \o <<"\n\nTask:\n">> \o arg_task_description)
        /\ (arg_context \in {None, Some(<<>>)} =>
               calls[1].prompt = arg_task_description)

C28_Witness ==
    /\ op = "single" /\ pc = "done" /\ arg_context = Some(<<"notes">>)
    /\ calls[1].prompt = <<"Context:\n", "notes", "\n\nTask:\n", "summarise">>

\* C30: every status=error result of run_multi_agent_sequential carries
\* failed_at_step and the steps completed before the failure, also when the
\* failure at step i is an internal error (a step configuration without a
\* role) rather than an agent error result.
C30_SequentialErrorKeepsPartialResults ==
    (op = "sequential" /\ pc = "done" /\ ret.status = "error") =>
        /\ "failed_at_step" \in DOMAIN ret
        /\ "completed_steps" \in DOMAIN ret
        /\ ret.failed_at_step = Len(results) + 1
        /\ ret.completed_steps = results

TaskReturned == pc = "done"

\* C24 as stated: every task operation registered with the worker returns, on
\* every path, an object that contains both status and task_id, and on every
\* error path also error.
C24_EveryTaskEnvelope ==
    TaskReturned =>
        /\ "status" \in DOMAIN ret
        /\ "task_id" \in DOMAIN ret
        /\ (ret.status = "error" => "error" \in DOMAIN ret)

\* C24 amended: every task operation other than debug_task returns, on every
\* path, an object that contains both status and task_id, and on every error
\* path also error; debug_task returns status=ok and a message, with no
\* task_id.
C24_TaskEnvelopeExceptDebug ==
    TaskReturned =>
        IF op = "debug"
        THEN ret = [status |-> "ok", message |-> "Worker is running"]
        ELSE /\ "status" \in DOMAIN ret
             /\ "task_id" \in DOMAIN ret
             /\ (ret.status = "error" => "error" \in DOMAIN ret)

C24_Witness ==
    /\ TaskReturned /\ op = "claude_query" /\ sdk_client = "available"
    /\ ret.status = "error" /\ ret.error = "task_failed"
    /\ ret.task_id = request_id

\* C25: no task function lets an exception escape: whatever the provider, the
\* vector index, the document reader or the SDK client does, and when an
\* intermediate result is malformed (an agent result lacking output), the
\* agent, workflow, RAG, document, pydantic and claude-agent task functions
\* return a structured envelope; the failure is reported as status=error.
C25_NoExceptionEscapes ==
    (TaskReturned /\ op # "debug") =>
        /\ "escaped" \notin DOMAIN ret
        /\ "status" \in DOMAIN ret /\ ret.status \in {"success", "error"}
        /\ "task_id" \in DOMAIN ret
        /\ ((op = "content_pipeline" /\ AnyFailure(calls))
               => ret = InternalError(request_id, KeyErrorStr("output")))
        /\ ((op = "chunk_and_index" /\ index_outcome \notin {"", "ok"})
               => ret = InternalError(request_id, IndexError(index_outcome)))
        /\ ((op = "claude_query" /\ sdk_client = "available")
               => ret.status = "error" /\ ret.error = "task_failed")

C25_Witness ==
    /\ TaskReturned /\ op = "content_pipeline"
    /\ Len(calls) = 2 /\ Succeeded(calls[1]) /\ Failed(calls[2])
    /\ ret = InternalError(request_id, KeyErrorStr("output"))

\* the latest invocation of run_long_task got a payload the schema accepts
LongAgentAnswered ==
    /\ op = "long_task" /\ invocations > 0 /\ last_outcome # None
    /\ ~last_outcome.val.raised /\ SchemaAccepts(last_outcome.val.data)

\* C31 as stated: run_long_task wraps a snapshot in a status=success envelope
\* only if the snapshot's own status is not failed; a snapshot with
\* status=failed is never delivered under envelope status=success.
C31_FailedSnapshotNeverUnderSuccess ==
    SnapshotReturned => ret.result.status # "failed"

\* C31 amended: run_long_task wraps every snapshot the agent returns in a
\* status=success envelope whatever the snapshot's own status, failed
\* included; the envelope is status=error only when the invocation raised
\* (the provider failed or the payload did not validate).
C31_EverySnapshotUnderSuccess ==
    (op = "long_task" /\ invocations > 0) =>
        IF LongAgentAnswered
        THEN /\ ret.status = "success"
             /\ ret.result.status = last_outcome.val.data.status.val
        ELSE ret.status = "error" /\ "result" \notin DOMAIN ret

C31_Witness ==
    /\ LongAgentAnswered /\ last_outcome.val.data.status = Some("failed")
    /\ ret.status = "success" /\ ret.result.status = "failed"

\* C32: query_with_context and search_documents are read-only on the vector
\* index: after any call, successful or failed, the set of collections and the
\* documents in each are the same as before the call.
C32_SearchIsReadOnly ==
    [][(op \in {"rag", "rag_search"} /\ i' = i + 1) => store' = store]_vars

\* the generate call of step 3 of research_and_report_workflow has been made
ReportGenerated ==
    \E k \in 1..Len(llm_calls) :
        llm_calls[k].system = "You are a research analyst creating comprehensive reports."

\* C33: research_and_report_workflow runs retrieval, then the three-agent
\* sequential analysis, then report generation, strictly in that order: no
\* agent is invoked before retrieval has succeeded and no report is generated
\* before all three agents have succeeded; if retrieval returns an error the
\* result is status=error with step=search and no agent is invoked; if the
\* chain returns an error the result is status=error with step=analysis and
\* the failing agent's error, and no report generation call is made.
C33_ResearchStepOrder ==
    op = "research_report" =>
        /\ (calls # <<>>) =>
               (rag_result # NoReturn /\ rag_result.status = "success")
        /\ ReportGenerated =>
               (Len(calls) = 3 /\ ~AnyFailure(calls)
                /\ [k \in 1..3 |-> calls[k].role] = <<"researcher", "analyst", "critic">>)
        /\ (pc = "done" /\ rag_result.status = "error") =>
               /\ ret = [status |-> "error", task_id |-> request_id,
                         step |-> "search", error |-> rag_result.error]
               /\ calls = <<>> /\ ~ReportGenerated
        /\ (pc = "done" /\ AnyFailure(calls)) =>
               /\ ret = [status |-> "error", task_id |-> request_id,
                         step |-> "analysis",
                         error |-> calls[Len(calls)].result.error]
               /\ ~ReportGenerated
               /\ \A k \in 1..(Len(calls) - 1) : Succeeded(calls[k])

C33_Witness ==
    /\ op = "research_report" /\ pc = "done"
    /\ Len(calls) = 2 /\ Failed(calls[2])
    /\ ret.status = "error" /\ ret.step = "analysis"

\* the documents of collection c in index st, none when c does not exist
Entries(st, c) == IF c \in DOMAIN st THEN st[c] ELSE <<>>

\* C34: whenever document_to_knowledge_base_workflow returns status=error, no
\* chunk of the document has been added to the collection: parse, index and
\* summarize either all take effect with status=success or the documents of
\* the vector index are as they were before the call.
C34_ErrorLeavesIndexUnchanged ==
    [][(op = "doc_to_kb" /\ pc = "loop" /\ pc' = "done" /\ ret'.status = "error")
       => \A c \in DOMAIN store' : Entries(store', c) = Entries(store, c)]_vars

\* a claude-agent task has returned
ClaudeReturned == op \in ClaudeOps /\ pc = "done"

EditsRequested ==
    \/ op = "file_operations" /\ arg_operation \in {"write", "edit"}
    \/ op = "execute_code" /\ arg_auto_accept

\* C35: claude-agent operations run with the edit-accepting permission mode
\* only when edits were requested: file_operations_task uses acceptEdits if and
\* only if operation is write or edit, execute_code_task uses acceptEdits if
\* and only if auto_accept is true, and the read, analyze, analyze_codebase and
\* run_tests operations always use plan.
C35_AcceptEditsOnlyWhenRequested ==
    (ClaudeReturned /\ op # "claude_query") =>
        \A k \in 1..Len(sdk_calls) :
            /\ sdk_calls[k].permission_mode = "acceptEdits" <=> EditsRequested
            /\ ~EditsRequested => sdk_calls[k].permission_mode = "plan"

C35_Witness ==
    /\ ClaudeReturned /\ op = "file_operations" /\ arg_operation = "edit"
    /\ Len(sdk_calls) = 1 /\ sdk_calls[1].permission_mode = "acceptEdits"

\* C36: when the Claude Agent SDK is available and the underlying SDK query
\* succeeds, claude_agent_query_task returns the client's result
\* (status=success with the response text) with task_id added, for every
\* combination of working_dir, max_tokens and permission_mode.
C36_QueryTaskReturnsClientResult ==
    (ClaudeReturned /\ op = "claude_query" /\ sdk_client = "available"
     /\ sdk_outcome.val.kind = "messages") =>
        /\ ret.status = "success"
        /\ ret.task_id = request_id
        /\ "text" \in DOMAIN ret /\ ret.text = sdk_outcome.val.text

BatchReturned == op = "batch_analysis" /\ pc = "done" /\ ret.status = "success"

C38_BatchCountsOnlyAnalysed ==
    BatchReturned =>
        /\ Len(ret.results) = Len(arg_file_paths)
        /\ ret.successful + ret.failed = ret.total_documents
        /\ ret.successful = CountStatus(ret.results, "success")
        /\ \A k \in 1..Len(ret.results) :
              /\ (parse_document(None, arg_file_paths[k]).status = "error")
                     <=> ("analysis" \notin DOMAIN ret.results[k])
              /\ ret.results[k].status = "success" =>
                     /\ parse_document(None, arg_file_paths[k]).status = "success"
                     /\ ret.results[k].analysis.status = "success"

\* the entries one chunk_and_index run added: those that carry a chunk_index
IndexedChunks ==
    SelectSeq(Entries(store, arg_collection_name),
              LAMBDA e : \E kv \in e.metadata : kv[1] = "chunk_index")

\* chunk is the piece of text that starts at character s
ChunkAt(text, chunk, s) ==
    /\ s + Len(chunk) - 1 <= Len(text)
    /\ SubSeq(text, s, s + Len(chunk) - 1) = chunk

ChunkAndIndexSucceeded ==
    op = "chunk_and_index" /\ pc = "done" /\ ret.status = "success"

=============================================================================
